---- MODULE Spec2Model ----
(***************************************************************************)
(* A model of the my-agent runtime: the ToolRegistry, the ContextBuilder   *)
(* (prompt assembly, compaction trigger, tail pruning), the                *)
(* MemoryCompactor and the Agent's ReAct loop.                             *)
(*                                                                         *)
(* Text is modelled as a sequence of symbols.  A symbol is a literal       *)
(* piece of text (its characters are counted with Len), except for the    *)
(* few symbols listed under "Text" that stand for something else.  An      *)
(* absent content (null) is the distinguished value Null.                  *)
(***************************************************************************)
EXTENDS Integers, Sequences, FiniteSets, TLC

VARIABLES
    registry,      \* ToolRegistry.tools: the Map's entries in insertion order
    lastExec,      \* observation: what the most recent execute() call did
    config,        \* Agent.config plus the optional compactor's keepRecentCount
    history,       \* Agent.conversationHistory
    pc,            \* where the run is: idle, iterate, compacting, llm, tools, done, failed
    iterations,    \* run's local `iterations`
    totalTokens,   \* run's local `totalTokens`
    ctx,           \* the ContextBuildResult of the current iteration
    pending,       \* response.toolCalls of the current iteration
    tcIndex,       \* position of the for-loop over response.toolCalls
    result,        \* what run returned (NoResult while running or after a throw)
    obs,           \* observation of the current run: LLM calls made and answers got
    lastCall,      \* observation: the most recent direct call of another operation
    heap,          \* message objects and the arrays that refer to them
    stack,         \* the agents suspended in a sessions_spawn call, outermost first
    memory,        \* options.memory of the outermost Agent: whether it is given,
                   \* and the content of MEMORY.md (Null while the file does not exist)
    extraSections  \* ContextBuilder.extraSections of the current agent

vars == <<registry, lastExec, config, history, pc, iterations, totalTokens,
          ctx, pending, tcIndex, result, obs, lastCall, heap, stack, memory,
          extraSections>>

agentVars == <<config, history, pc, iterations, totalTokens, ctx, pending,
               tcIndex, result, obs, stack, memory, extraSections>>

-----------------------------------------------------------------------------
(* Bounds of the model *)

\* largest maxIterations a configuration is given
MaxIterBound == 3
\* most tool calls one LLM response carries
MaxCalls == 2
\* a run is started on a history of at most this many messages
MaxStartLen == 1
\* number of characters of the large text block (a big file a tool returns)
HugeChars == 120000
\* longest allowlist handed to filteredDefinitions directly
MaxAllowlist == 2
\* longest message list handed to the ContextBuilder or MemoryCompactor directly
MaxHistory == 4
\* largest keepRecentCount of a MemoryCompactor called directly
MaxKeep == 1
\* largest number of message objects allocated
MaxObjects == 6
\* deepest nesting of child agents
MaxDepth == 2
\* largest maxIterations of an agent set up with the sessions tool
MaxSessionIter == 2
\* maxIterations of the agent given a memory
MaxMemoryIter == 2
\* maxIterations of the agent given a context budget
MaxBudgetIter == 3

-----------------------------------------------------------------------------
(* Text *)

Null == <<"(null)">>

\* stands for HugeChars ordinary characters
HugeBlock == "#"
\* stands for the 7 characters "<|DSML|" whose two bars are fullwidth (U+FF5C)
DSMLOpen == "<|DSML|"
FnOpen == "<function_call>"
FnClose == "</function_call>"
\* stand for the markdown fences of a tool_code block (three backquotes each)
CodeOpen == "~~~tool_code"
CodeClose == "~~~"

IsSpace(sym) == sym \in {" ", "\n"}

\* characters of a symbol whose code point is above 0x2e80
CjkChars(sym) == IF sym = DSMLOpen THEN 2 ELSE 0

\* the other characters of a symbol
OtherChars(sym) ==
    IF sym = HugeBlock THEN HugeChars
    ELSE IF sym = DSMLOpen THEN 5
    ELSE Len(sym)

\* the loop over the characters: cjk after the first n symbols
RECURSIVE CountCjk(_, _)
CountCjk(text, n) ==
    IF n = 0 THEN 0 ELSE CountCjk(text, n - 1) + CjkChars(text[n])

\* the loop over the characters: other after the first n symbols
RECURSIVE CountOther(_, _)
CountOther(text, n) ==
    IF n = 0 THEN 0 ELSE CountOther(text, n - 1) + OtherChars(text[n])

\* Math.ceil(cjk / 2 + other / 4); t is the text, evaluated once
estimateTokens(text) ==
    CHOOSE n \in { (2 * CountCjk(t, Len(t)) + CountOther(t, Len(t)) + 3) \div 4 :
                     t \in {text} } : TRUE

\* content ?? ""
OrEmpty(content) == IF content = Null THEN <<>> ELSE content

\* text.includes(sym), for a symbol of the model
Contains(text, sym) == \E i \in 1..Len(text) : text[i] = sym

\* index of the first occurrence of sym at or after position from; 0 when none
FirstIndex(text, sym, from) ==
    IF \E i \in from..Len(text) : text[i] = sym
    THEN CHOOSE i \in from..Len(text) :
             text[i] = sym /\ \A j \in from..(i - 1) : text[j] # sym
    ELSE 0

\* text.replace(/<open>[\s\S]*$/g, "")
RemoveToEnd(text, open) ==
    LET i == FirstIndex(text, open, 1)
    IN  IF i = 0 THEN text ELSE SubSeq(text, 1, i - 1)

\* text.replace(/<open>[\s\S]*?<close>/g, "")
RECURSIVE RemoveBlocks(_, _, _)
RemoveBlocks(text, open, close) ==
    LET i == FirstIndex(text, open, 1)
        j == IF i = 0 THEN 0 ELSE FirstIndex(text, close, i + 1)
    IN  IF i = 0 \/ j = 0 THEN text
        ELSE SubSeq(text, 1, i - 1)
                 \o RemoveBlocks(SubSeq(text, j + 1, Len(text)), open, close)

\* text.trim()
RECURSIVE TrimLeft(_)
TrimLeft(text) ==
    IF text # <<>> /\ IsSpace(Head(text)) THEN TrimLeft(Tail(text)) ELSE text

RECURSIVE TrimRight(_)
TrimRight(text) ==
    IF text # <<>> /\ IsSpace(text[Len(text)])
    THEN TrimRight(SubSeq(text, 1, Len(text) - 1))
    ELSE text

Trim(text) == TrimRight(TrimLeft(text))

stripFakeToolCalls(text) ==
    LET cleaned1 == RemoveToEnd(text, DSMLOpen)
        cleaned2 == RemoveBlocks(cleaned1, FnOpen, FnClose)
        cleaned3 == RemoveBlocks(cleaned2, CodeOpen, CodeClose)
    IN  Trim(cleaned3)

-----------------------------------------------------------------------------
(* JSON *)

\* the argument strings the model feeds to execute
ArgsJson == {"{\"input\":\"hello\"}", "{}", "not-json"}

\* the argument texts of sessions_spawn calls
SpawnJson ==
    { "{\"query\":\"Child task\"}",
      "{\"query\":\"Child task\",\"subAgentName\":\"Child\",\"toolAllowlist\":[]}",
      "{\"query\":\"Child task\",\"toolAllowlist\":[\"alpha\"]}",
      "{\"query\":\"Child task\",\"additionalInstructions\":\"Be brief.\",\"toolAllowlist\":[\"sessions_spawn\"]}" }

\* the argument texts of update_memory calls that carry a content
MemoryJson ==
    { "{\"content\":\"Likes tea.\"}",
      "{\"content\":\"Prefers Rust.\"}",
      "{\"content\":\"\"}" }

\* whether JSON.parse(s) returns (TRUE) or throws a SyntaxError (FALSE)
JsonParses(s) ==
    s \in {"{\"input\":\"hello\"}", "{}"} \cup SpawnJson \cup MemoryJson

\* the message of the SyntaxError JSON.parse throws on s
SyntaxErrorMessage(s) == <<"Unexpected token in JSON: ", s>>

\* JSON.stringify({ error: message })
ErrorJson(message) == <<"{\"error\":\"">> \o message \o <<"\"}">>

\* the error field of a text produced by JSON.stringify({ error: ... }), or Null
ErrorField(text) ==
    IF Len(text) >= 2 /\ text[1] = "{\"error\":\"" /\ text[Len(text)] = "\"}"
    THEN SubSeq(text, 2, Len(text) - 1)
    ELSE Null

-----------------------------------------------------------------------------
(* ToolRegistry *)

ToolNames == {"alpha", "beta", "ghost"}
HandlerIds == {"h1", "h2"}
NoHandler == "none"

\* what a handler does when it is called: return a text, or throw
HandlerReturns == {<<"5">>, <<HugeBlock>>}
HandlerThrows == {<<"boom">>}
Behaviours ==
    [kind : {"return"}, text : HandlerReturns]
        \cup [kind : {"throw"}, text : HandlerThrows]

\* this.tools.has(name)
has(reg, name) == \E i \in 1..Len(reg) : reg[i].name = name

\* this.tools.get(name), as the position of the entry; 0 for undefined
IndexOf(reg, name) ==
    IF has(reg, name) THEN CHOOSE i \in 1..Len(reg) : reg[i].name = name ELSE 0

\* [...this.tools.keys()]
names(reg) == [i \in 1..Len(reg) |-> reg[i].name]

\* execute with the arguments parsed before the lookup
executeParseFirst(reg, name, argsJson, b) ==
    LET i == IndexOf(reg, name)
    IN  IF ~JsonParses(argsJson)
        THEN [text |-> ErrorJson(SyntaxErrorMessage(argsJson)), threw |-> FALSE,
              invoked |-> 0, handler |-> NoHandler]
        ELSE IF i = 0
        THEN [text |-> ErrorJson(<<"Unknown tool: ", name>>), threw |-> FALSE,
              invoked |-> 0, handler |-> NoHandler]
        ELSE IF b.kind = "throw"
        THEN [text |-> ErrorJson(b.text), threw |-> FALSE,
              invoked |-> 1, handler |-> reg[i].handler]
        ELSE [text |-> b.text, threw |-> FALSE,
              invoked |-> 1, handler |-> reg[i].handler]

\* execute with the handler awaited outside the try block
executeNoCatch(reg, name, argsJson, b) ==
    LET i == IndexOf(reg, name)
    IN  IF i = 0
        THEN [text |-> ErrorJson(<<"Unknown tool: ", name>>), threw |-> FALSE,
              invoked |-> 0, handler |-> NoHandler]
        ELSE IF ~JsonParses(argsJson)
        THEN [text |-> ErrorJson(SyntaxErrorMessage(argsJson)), threw |-> FALSE,
              invoked |-> 0, handler |-> NoHandler]
        ELSE IF b.kind = "throw"
        THEN [text |-> b.text, threw |-> TRUE,
              invoked |-> 1, handler |-> reg[i].handler]
        ELSE [text |-> b.text, threw |-> FALSE,
              invoked |-> 1, handler |-> reg[i].handler]

\* execute refusing the tools that the agent's allowlist does not name
executeAllowlisted(reg, name, argsJson, b) ==
    LET i == IndexOf(reg, name)
        listed == \/ config.toolAllowlist = <<>>
                  \/ \E k \in 1..Len(config.toolAllowlist) :
                        config.toolAllowlist[k] = name
    IN  IF i = 0 \/ ~listed
        THEN [text |-> ErrorJson(<<"Unknown tool: ", name>>), threw |-> FALSE,
              invoked |-> 0, handler |-> NoHandler]
        ELSE IF ~JsonParses(argsJson)
        THEN [text |-> ErrorJson(SyntaxErrorMessage(argsJson)), threw |-> FALSE,
              invoked |-> 0, handler |-> NoHandler]
        ELSE IF b.kind = "throw"
        THEN [text |-> ErrorJson(b.text), threw |-> FALSE,
              invoked |-> 1, handler |-> reg[i].handler]
        ELSE [text |-> b.text, threw |-> FALSE,
              invoked |-> 1, handler |-> reg[i].handler]

\* the outcome of execute(name, argsJson) when the handler, if called, behaves as b
execute(reg, name, argsJson, b) ==
    LET i == IndexOf(reg, name)
    IN  IF i = 0
        THEN [text |-> ErrorJson(<<"Unknown tool: ", name>>), threw |-> FALSE,
              invoked |-> 0, handler |-> NoHandler]
        ELSE IF ~JsonParses(argsJson)
        THEN [text |-> ErrorJson(SyntaxErrorMessage(argsJson)), threw |-> FALSE,
              invoked |-> 0, handler |-> NoHandler]
        ELSE IF b.kind = "throw"
        THEN [text |-> ErrorJson(b.text), threw |-> FALSE,
              invoked |-> 1, handler |-> reg[i].handler]
        ELSE [text |-> b.text, threw |-> FALSE,
              invoked |-> 1, handler |-> reg[i].handler]

\* the record kept of an execute call
ExecRecord(reg, name, argsJson, b) ==
    [name |-> name, args |-> argsJson, behaviour |-> b,
     registered |-> has(reg, name), out |-> execute(reg, name, argsJson, b)]

NoExec ==
    [name |-> "", args |-> "", behaviour |-> [kind |-> "return", text |-> <<>>],
     registered |-> FALSE,
     out |-> [text |-> <<>>, threw |-> FALSE, invoked |-> 0,
              handler |-> NoHandler]]

\* no direct call observed
NoCall == [op |-> "none"]

\* no message object allocated and no array returned: objects are the
\* contents of the message objects by reference, stored the references in
\* this.conversationHistory, snapshot the references in the array last
\* returned to the caller; kept and held are the values the Agent and the
\* caller last gave to their own array
NoHeap ==
    [objects |-> <<>>, stored |-> <<>>, snapshot |-> <<>>, returned |-> FALSE,
     kept |-> <<>>, held |-> <<>>]

\* the allowlists handed to filteredDefinitions: any order, duplicates,
\* unregistered names; <<>> is the absent or empty allowlist
Allowlists == UNION { [1..n -> ToolNames] : n \in 0..MaxAllowlist }

\* whether register(tool) throws "already registered"
registerThrows(reg, name) == has(reg, name)

\* what unregister(name) returns: this.tools.delete(name)
unregisterReturns(reg, name) == has(reg, name)

\* register with Map.set and no check of the name
registerOverwrite(reg, name, h) ==
    IF has(reg, name)
    THEN [i \in 1..Len(reg) |->
            IF reg[i].name = name THEN [name |-> name, handler |-> h] ELSE reg[i]]
    ELSE Append(reg, [name |-> name, handler |-> h])

\* register(tool): throws (registry unchanged) when the name is taken
register(reg, name, h) ==
    IF has(reg, name) THEN reg ELSE Append(reg, [name |-> name, handler |-> h])

\* unregister(name): Map.delete keeps the order of the other entries
unregister(reg, name) == SelectSeq(reg, LAMBDA t : t.name # name)

UpdateMemoryTool == "update_memory"

\* a constructor that registers the memory tool for every Agent
constructAgentAlways(reg, hasMemory) == register(reg, UpdateMemoryTool, "memory")

\* the Agent constructor's effect on the registry it is given
constructAgent(reg, hasMemory) ==
    IF hasMemory THEN register(reg, UpdateMemoryTool, "memory") ELSE reg

\* allDefinitions(): a definition is identified by its tool's name
allDefinitions(reg) == names(reg)

\* the definitions looked up in the order of the allowlist
filteredInAllowlistOrder(reg, allowlist) ==
    IF allowlist = <<>>
    THEN allDefinitions(reg)
    ELSE SelectSeq(allowlist, LAMBDA n : has(reg, n))

\* filteredDefinitions(allowlist); an absent allowlist is modelled as <<>>
filteredDefinitions(reg, allowlist) ==
    IF allowlist = <<>>
    THEN allDefinitions(reg)
    ELSE SelectSeq(names(reg),
                   LAMBDA n : \E k \in 1..Len(allowlist) : allowlist[k] = n)

-----------------------------------------------------------------------------
(* Messages *)

NoId == ""
NoCalls == <<>>

Message(role, content, calls, callId, name, reasoning) ==
    [role |-> role, content |-> content, tool_calls |-> calls,
     tool_call_id |-> callId, name |-> name, reasoning_content |-> reasoning]

UserMessage(content) == Message("user", content, NoCalls, NoId, NoId, Null)
SystemMessage(content) == Message("system", content, NoCalls, NoId, NoId, Null)

\* sum of estimateTokens(m.content ?? "") over the first n messages
RECURSIVE SumTokensTo(_, _)
SumTokensTo(messages, n) ==
    IF n = 0 THEN 0
    ELSE SumTokensTo(messages, n - 1) + estimateTokens(OrEmpty(messages[n].content))

\* messages.reduce((sum, m) => sum + estimateTokens(m.content ?? ""), 0)
SumTokens(messages) ==
    CHOOSE n \in { SumTokensTo(ms, Len(ms)) : ms \in {messages} } : TRUE

-----------------------------------------------------------------------------
(* Prompt assembler *)

Divider == "\n\n---\n\n"

\* sections.join(divider)
RECURSIVE JoinSections(_)
JoinSections(sections) ==
    IF sections = <<>> THEN <<>>
    ELSE IF Len(sections) = 1 THEN Head(sections)
    ELSE Head(sections) \o <<Divider>> \o JoinSections(Tail(sections))

\* the ISO timestamp, 24 characters
Timestamp == "2026-01-01T00:00:00.000Z"

buildRuntimeSection(cfg) ==
    <<"## Runtime Information", "\n", "\n", "- Agent: ", cfg.name, "\n",
      "- Model: ", cfg.model, "\n", "- Time: ", Timestamp>>

\* the lines of one tool; its description and schema are one symbol each
RECURSIVE ToolLines(_)
ToolLines(tools) ==
    IF tools = <<>> THEN <<>>
    ELSE <<"### ", Head(tools), "\n", "Tool description", "\n",
           "Parameters: ", "{\"type\":\"object\"}", "\n", "\n">>
             \o ToolLines(Tail(tools))

buildToolsSection(tools) ==
    <<"## Available Tools", "\n", "\n",
      "You have access to the following tools. Call them by emitting a tool_call in your response.",
      "\n", "\n">> \o ToolLines(tools)

RECURSIVE SectionTexts(_)
SectionTexts(extra) ==
    IF extra = <<>> THEN <<>>
    ELSE << <<"## ", Head(extra).heading, "\n\n">> \o Head(extra).content >>
             \o SectionTexts(Tail(extra))

\* buildSystemPrompt, for an agent without skills
buildSystemPrompt(cfg, tools, sections) ==
    JoinSections(
        <<cfg.baseInstructions, buildRuntimeSection(cfg)>>
            \o (IF Len(tools) > 0 THEN <<buildToolsSection(tools)>> ELSE <<>>)
            \o SectionTexts(sections))

-----------------------------------------------------------------------------
(* MemoryCompactor *)

SummaryTag == "[Context summary:"
FailedSummary == <<"(Failed to generate summary)">>

\* the trigger firing already at 80% of maxTokens
shouldCompactAtThreshold(messages, maxTokens) ==
    5 * SumTokens(messages) >= 4 * maxTokens

\* totalTokens > maxTokens * 0.8
shouldCompact(messages, maxTokens) == 5 * SumTokens(messages) > 4 * maxTokens

\* compact refusing only below keepRecentCount + 2 messages
compactRefusesBelow(messages, keepRecentCount) ==
    Len(messages) < keepRecentCount + 2

\* compact returns null without calling the LLM
compactRefuses(messages, keepRecentCount) == Len(messages) <= keepRecentCount + 2

\* the split taken from the start of the list
splitIndexFromStart(messages, keepRecentCount) == keepRecentCount

splitIndex(messages, keepRecentCount) == Len(messages) - keepRecentCount

\* messages.slice(0, splitIndex)
toCompact(messages, keepRecentCount) ==
    SubSeq(messages, 1, splitIndex(messages, keepRecentCount))

\* messages.slice(splitIndex)
recent(messages, keepRecentCount) ==
    SubSeq(messages, splitIndex(messages, keepRecentCount) + 1, Len(messages))

\* the messages handed to summarize
filteredToCompact(messages, keepRecentCount) ==
    SelectSeq(toCompact(messages, keepRecentCount),
              LAMBDA m : ~(m.content # Null /\ Contains(m.content, SummaryTag)))

\* response.content || "(Failed to generate summary)"
summaryOf(content) ==
    IF content = Null \/ content = <<>> THEN FailedSummary ELSE content

summaryMessage(messages, keepRecentCount, summaryContent) ==
    SystemMessage(
        <<SummaryTag, " the following is a summary of ",
          ToString(Len(toCompact(messages, keepRecentCount))),
          " earlier message(s) that were compacted to save context space]",
          "\n\n">> \o summaryContent)

\* a result that drops only the first message of the summarized prefix
compactPartial(messages, keepRecentCount, summaryContent) ==
    <<summaryMessage(messages, keepRecentCount, summaryContent)>>
        \o SubSeq(messages, 2, Len(messages))

\* the messages of the CompactionResult, once summarize has returned
compact(messages, keepRecentCount, summaryContent) ==
    <<summaryMessage(messages, keepRecentCount, summaryContent)>>
        \o recent(messages, keepRecentCount)

-----------------------------------------------------------------------------
(* ContextBuilder *)

\* ContextBuilder's maxContextTokens: the Agent passes none, so the default
DEFAULT_MAX_CONTEXT_TOKENS == 32000

\* the for-loop without the exemption of the most recent message
RECURSIVE pruneCutoffStrict(_, _, _, _)
pruneCutoffStrict(messages, budgetTokens, k, used) ==
    IF k = 0 THEN 0
    ELSE LET tokens == estimateTokens(OrEmpty(messages[k].content))
         IN  IF used + tokens > budgetTokens
             THEN k
             ELSE pruneCutoffStrict(messages, budgetTokens, k - 1, used + tokens)

\* the for-loop of pruneMessages, at 1-based position k; yields cutoff
RECURSIVE pruneCutoff(_, _, _, _)
pruneCutoff(messages, budgetTokens, k, used) ==
    IF k = 0 THEN 0
    ELSE LET tokens == estimateTokens(OrEmpty(messages[k].content))
         IN  IF used + tokens > budgetTokens /\ k < Len(messages)
             THEN k
             ELSE pruneCutoff(messages, budgetTokens, k - 1, used + tokens)

pruneNotice(cutoff) ==
    SystemMessage(<<"[Context note: ", ToString(cutoff),
                    " earlier message(s) were pruned to fit the context window.]">>)

pruneMessages(messages, budgetTokens) ==
    IF Len(messages) = 0 THEN <<>>
    ELSE LET cutoff == pruneCutoff(messages, budgetTokens, Len(messages), 0)
             pruned == SubSeq(messages, cutoff + 1, Len(messages))
         IN  IF cutoff > 0 THEN <<pruneNotice(cutoff)>> \o pruned ELSE pruned

selectTools(cfg, reg) == filteredDefinitions(reg, cfg.toolAllowlist)

\* no LongTermMemory is given to the Agent
NoMemory == [configured |-> FALSE, file |-> Null]

\* LongTermMemory.read: the file's content, "" when it cannot be read
read(mem) == IF mem.file = Null THEN <<>> ELSE mem.file

\* a write that adds to the document
writeAppending(mem, content) == [mem EXCEPT !.file = read(mem) \o content]

\* LongTermMemory.write: the file is replaced by content
write(mem, content) == [mem EXCEPT !.file = content]

\* the memory of the current agent's ContextBuilder: a child is given none
agentHasMemory == stack = <<>> /\ memory.configured

\* build: this.memory ? await this.memory.read() : ""
memoryContent == IF agentHasMemory THEN read(memory) ELSE <<>>

\* a build that pushes the section whatever the content
effectiveExtraSectionsAlways ==
    extraSections
        \o (IF agentHasMemory
            THEN <<[heading |-> "Long-Term Memory", content |-> memoryContent]>>
            ELSE <<>>)

\* build: [...this.extraSections] plus the memory section when there is content
effectiveExtraSections ==
    extraSections
        \o (IF memoryContent # <<>>
            THEN <<[heading |-> "Long-Term Memory", content |-> memoryContent]>>
            ELSE <<>>)

systemPromptOf(cfg, reg) ==
    buildSystemPrompt(cfg, selectTools(cfg, reg), effectiveExtraSections)

\* budget = this.maxContextTokens - systemTokens
budgetAt(maxContextTokens, systemPrompt) ==
    maxContextTokens - estimateTokens(systemPrompt)

budgetOf(cfg, reg) ==
    budgetAt(DEFAULT_MAX_CONTEXT_TOKENS, systemPromptOf(cfg, reg))

\* build reaches `await this.compactor.compact(messages)`
buildCompacts(cfg, reg, conversationHistory) ==
    cfg.hasCompactor /\ shouldCompact(conversationHistory, budgetOf(cfg, reg))

\* the rest of build, from the tail-pruning on; messages is the working
\* history, compacted says whether compaction replaced it
buildFrom(cfg, reg, systemPrompt, messages, budget, compacted) ==
    LET prunedMessages == pruneMessages(messages, budget)
        final == IF Len(prunedMessages) # Len(messages)
                 THEN prunedMessages ELSE messages
    IN  [systemPrompt |-> systemPrompt,
         messages |-> final,
         tools |-> selectTools(cfg, reg),
         tokenEstimate |-> estimateTokens(systemPrompt) + SumTokens(final),
         hasUpdate |-> compacted,
         updatedHistory |-> IF compacted THEN messages ELSE <<>>]

\* build's locals systemPrompt, messages and budget are each evaluated once
buildResult(cfg, reg, messages, compacted) ==
    CHOOSE r \in { buildFrom(cfg, reg, p, ms, budget, compacted) :
                     p \in {systemPromptOf(cfg, reg)}, ms \in {messages},
                     budget \in {budgetOf(cfg, reg)} } : TRUE

\* what compact resolves to when its LLM call returns llmContent
compactOutcome(messages, keepRecentCount, llmContent) ==
    IF compactRefuses(messages, keepRecentCount)
    THEN [absent |-> TRUE, llmCalls |-> 0, messages |-> <<>>,
          compactedCount |-> 0]
    ELSE [absent |-> FALSE, llmCalls |-> 1,
          messages |-> compact(messages, keepRecentCount, summaryOf(llmContent)),
          compactedCount |-> Len(toCompact(messages, keepRecentCount))]

\* build(history) of a ContextBuilder constructed with maxContextTokens, whose
\* compactor's LLM call (if made) returns llmContent
build(cfg, reg, maxContextTokens, conversationHistory, llmContent) ==
    CHOOSE r \in
        { LET triggered == cfg.hasCompactor /\ shouldCompact(ms, budget)
              outcome == compactOutcome(ms, cfg.keepRecentCount, llmContent)
              compacted == triggered /\ ~outcome.absent
              working == IF compacted THEN outcome.messages ELSE ms
          IN  [budget |-> budget, triggered |-> triggered,
               llmCalls |-> IF triggered THEN outcome.llmCalls ELSE 0,
               context |-> buildFrom(cfg, reg, p, working, budget, compacted)] :
            p \in {systemPromptOf(cfg, reg)}, ms \in {conversationHistory},
            budget \in {budgetAt(maxContextTokens, systemPromptOf(cfg, reg))} } : TRUE

-----------------------------------------------------------------------------
(* Agent *)

NudgeText ==
    <<"[IMPORTANT: This is your LAST chance to use tools. After this step, you MUST provide your final answer directly. If you already have enough information, respond NOW without calling tools.]">>

FinalStepText ==
    <<"[FINAL STEP: You CANNOT call any tools. Based on ALL the information you have gathered in previous steps, provide your complete, well-structured answer NOW. Respond in the same language as the user's original question.]">>

MaxStepsPhrase == "maximum number of reasoning steps"

FallbackText == <<"I've reached the ", MaxStepsPhrase, ".">>

NoResult ==
    [returned |-> FALSE, response |-> <<>>, messages |-> <<>>, iterations |-> 0,
     totalTokens |-> 0]

NoCtx == [messages |-> <<>>, tools |-> <<>>]

\* the observation of the response that ended a run: its content and whether
\* it carried tool calls
NoFinal == [seen |-> FALSE, content |-> Null, hadCalls |-> FALSE]
FinalOf(response) ==
    [seen |-> TRUE, content |-> response.content,
     hadCalls |-> Len(response.toolCalls) > 0]

\* the observation of a run that has just started on a history of n messages
NewObs(n, userMessage) ==
    [startLen |-> n, userMessage |-> userMessage, llmCalls |-> 0,
     compactCalls |-> 0, responses |-> <<>>, final |-> NoFinal,
     chatTools |-> <<>>, chatIterations |-> <<>>, compacted |-> FALSE,
     appended |-> <<UserMessage(userMessage)>>, failedAt |-> "none",
     executed |-> <<>>]

\* the inputs the model draws
UserMessages == {<<"Hi">>}

ToolCallChoices ==
    { [id |-> "c1", name |-> "alpha", arguments |-> "{\"input\":\"hello\"}"],
      [id |-> "c2", name |-> "ghost", arguments |-> "{}"],
      [id |-> "c3", name |-> "alpha", arguments |-> "not-json"] }

\* the calls of one response carry distinct ids
CallSeqs ==
    { s \in UNION { [1..n -> ToolCallChoices] : n \in 0..MaxCalls } :
        \A i, j \in 1..Len(s) : i # j => s[i].id # s[j].id }

ContentChoices ==
    { Null, <<"thinking...">>, <<" ", "The answer.", DSMLOpen, "function_calls>">> }

\* what llm.chat may return: an answer without tool calls, or tool calls
\* with or without accompanying text
LLMResponses ==
    [content : ContentChoices, toolCalls : {<<>>}, reasoningContent : {Null}]
        \cup [content : {Null}, toolCalls : CallSeqs \ {<<>>},
              reasoningContent : {Null}]
        \cup [content : {<<"thinking...">>},
              toolCalls : { <<tc>> : tc \in {t \in ToolCallChoices : t.id = "c1"} },
              reasoningContent : {Null}]

SummaryChoices == { Null, <<"Summary.">> }

Configs ==
    [name : {"test-agent"}, model : {"mock"},
     baseInstructions : { <<"You are a helpful test agent.">> },
     maxIterations : 0..MaxIterBound,
     toolAllowlist : { <<>>, <<"beta">> },
     hasCompactor : BOOLEAN,
     keepRecentCount : {1}]

\* this.config.maxIterations ?? DEFAULT_MAX_ITERATIONS, for a configuration
\* that sets maxIterations
maxIter == config.maxIterations

remainingSteps(iter) == maxIter - iter
\* the forced answer decided one iteration too late
shouldForceAnswerLate(iter) == remainingSteps(iter) < 0
shouldForceAnswer(iter) == remainingSteps(iter) <= 0
\* the nudge given in the forced iteration as well
shouldNudgeWhenForced(iter) == remainingSteps(iter) <= 1
shouldNudge(iter) == remainingSteps(iter) <= 1 /\ ~shouldForceAnswer(iter)

\* the messages handed to llm.chat in iteration iter
llmMessages(c, iter) ==
    <<SystemMessage(c.systemPrompt)>> \o c.messages
        \o (IF shouldNudge(iter) THEN <<SystemMessage(NudgeText)>> ELSE <<>>)
        \o (IF shouldForceAnswer(iter) THEN <<SystemMessage(FinalStepText)>> ELSE <<>>)

\* the tool list handed to llm.chat in iteration iter
llmTools(c, iter) == IF shouldForceAnswer(iter) THEN <<>> ELSE c.tools

\* the loop condition with <= for <
loopContinuesInclusive == iterations <= maxIter
\* whether the loop condition lets another iteration start
loopContinues == iterations < maxIter

running == pc \in {"iterate", "compacting", "llm", "tools"}

\* run(userMessage), up to the loop head
Run(userMessage) ==
    /\ ~running
    /\ Len(history) <= MaxStartLen
    /\ history' = Append(history, UserMessage(userMessage))
    /\ iterations' = 0
    /\ totalTokens' = 0
    /\ result' = NoResult
    /\ obs' = NewObs(Len(history), userMessage)
    /\ pc' = "iterate"
    /\ lastExec' = NoExec
    /\ ctx' = NoCtx
    /\ pending' = <<>>
    /\ tcIndex' = 0
    /\ UNCHANGED <<stack, memory, extraSections, lastCall, heap, registry, config>>

\* an iteration that keeps the estimate of its own build only
CallLLMLastEstimate(c, iter) ==
    /\ totalTokens' = c.tokenEstimate
    /\ history' = IF c.hasUpdate THEN c.updatedHistory ELSE history
    /\ ctx' = [messages |-> llmMessages(c, iter), tools |-> llmTools(c, iter)]
    /\ pc' = "llm"

\* an iteration that stores the messages it sends to the LLM
CallLLMStoringContext(c, iter) ==
    /\ totalTokens' = totalTokens + c.tokenEstimate
    /\ history' = c.messages
    /\ ctx' = [messages |-> llmMessages(c, iter), tools |-> llmTools(c, iter)]
    /\ pc' = "llm"

\* the part of an iteration after build has returned c: the history is
\* replaced if compaction happened, and llm.chat is called
CallLLM(c, iter) ==
    /\ totalTokens' = totalTokens + c.tokenEstimate
    /\ history' = IF c.hasUpdate THEN c.updatedHistory ELSE history
    /\ ctx' = [messages |-> llmMessages(c, iter), tools |-> llmTools(c, iter)]
    /\ pc' = "llm"

\* an iteration starts and build needs no summary: it runs to the LLM call
BeginIteration ==
    /\ pc = "iterate"
    /\ loopContinues
    /\ ~( /\ buildCompacts(config, registry, history)
          /\ ~compactRefuses(history, config.keepRecentCount) )
    /\ iterations' = iterations + 1
    /\ \E c \in {buildResult(config, registry, history, FALSE)} :
          CallLLM(c, iterations + 1)
    /\ obs' = [obs EXCEPT !.llmCalls = @ + 1,
                          !.chatTools = Append(@, ctx'.tools),
                          !.chatIterations = Append(@, iterations + 1)]
    /\ UNCHANGED <<stack, memory, extraSections, lastCall, heap, registry, lastExec, config, pending, tcIndex, result>>

\* an iteration starts and build awaits the compactor's LLM call
BeginCompaction ==
    /\ pc = "iterate"
    /\ loopContinues
    /\ buildCompacts(config, registry, history)
    /\ ~compactRefuses(history, config.keepRecentCount)
    /\ iterations' = iterations + 1
    /\ pc' = "compacting"
    /\ obs' = [obs EXCEPT !.compactCalls = @ + 1]
    /\ UNCHANGED <<stack, memory, extraSections, lastCall, heap, registry, lastExec, config, history, totalTokens, ctx,
                   pending, tcIndex, result>>

\* the compactor's LLM call returns: build finishes on the compacted history
CompactorReturns(content) ==
    /\ pc = "compacting"
    /\ LET compacted == compact(history, config.keepRecentCount, summaryOf(content))
       IN  \E c \in {buildResult(config, registry, compacted, TRUE)} :
              CallLLM(c, iterations)
    /\ obs' = [obs EXCEPT !.llmCalls = @ + 1,
                          !.chatTools = Append(@, ctx'.tools),
                          !.chatIterations = Append(@, iterations),
                          !.compacted = TRUE]
    /\ UNCHANGED <<stack, memory, extraSections, lastCall, heap, registry, lastExec, config, iterations, pending, tcIndex,
                   result>>

\* the compactor's LLM call throws: the error leaves build and run
CompactorRaises ==
    /\ pc = "compacting"
    /\ pc' = "failed"
    /\ obs' = [obs EXCEPT !.failedAt = "compactor"]
    /\ UNCHANGED <<stack, memory, extraSections, lastCall, heap, registry, lastExec, config, history, iterations, totalTokens,
                   ctx, pending, tcIndex, result>>

AssistantCalls(response) ==
    Message("assistant", response.content, response.toolCalls, NoId, NoId,
            response.reasoningContent)

AssistantFinal(content, reasoning) ==
    Message("assistant", content, NoCalls, NoId, NoId, reasoning)

ToolMessage(tc, text) == Message("tool", text, NoCalls, tc.id, tc.name, Null)

\* whether the response is handled as tool calls to execute
takesToolBranch(response, iter) ==
    Len(response.toolCalls) > 0 /\ ~shouldForceAnswer(iter)

\* the final answer taken as the LLM wrote it
finalContentRaw(response) == OrEmpty(response.content)
\* the content of the final answer
finalContentOf(response) == stripFakeToolCalls(OrEmpty(response.content))

\* llm.chat returns tool calls that are executed
LLMReturnsCalls(response) ==
    /\ pc = "llm"
    /\ takesToolBranch(response, iterations)
    /\ history' = Append(history, AssistantCalls(response))
    /\ pending' = response.toolCalls
    /\ tcIndex' = 1
    /\ pc' = "tools"
    /\ obs' = [obs EXCEPT !.responses = Append(@, response),
                          !.appended = Append(@, AssistantCalls(response))]
    /\ UNCHANGED <<stack, memory, extraSections, lastCall, heap, registry, lastExec, config, iterations, totalTokens, ctx,
                   result>>

\* llm.chat returns the final answer
LLMReturnsFinal(response) ==
    /\ pc = "llm"
    /\ ~takesToolBranch(response, iterations)
    /\ LET finalContent == finalContentOf(response)
           newHistory == Append(history,
                                AssistantFinal(finalContent, response.reasoningContent))
       IN  /\ history' = newHistory
           /\ result' = [returned |-> TRUE, response |-> finalContent,
                         messages |-> newHistory, iterations |-> iterations,
                         totalTokens |-> totalTokens]
    /\ pc' = "done"
    /\ obs' = [obs EXCEPT !.final = FinalOf(response),
                          !.appended = Append(@, history'[Len(history')])]
    /\ UNCHANGED <<stack, memory, extraSections, lastCall, heap, registry, lastExec, config, iterations, totalTokens, ctx,
                   pending, tcIndex>>

\* llm.chat throws and the loop goes on to another attempt
LLMRaisesRetried ==
    /\ pc = "llm"
    /\ pc' = "iterate"
    /\ obs' = [obs EXCEPT !.failedAt = "llm"]
    /\ UNCHANGED <<stack, memory, extraSections, lastCall, heap, registry, lastExec, config, history, iterations, totalTokens,
                   ctx, pending, tcIndex, result>>

\* llm.chat throws: nothing catches it, run rejects
LLMRaises ==
    /\ pc = "llm"
    /\ pc' = "failed"
    /\ obs' = [obs EXCEPT !.failedAt = "llm"]
    /\ UNCHANGED <<stack, memory, extraSections, lastCall, heap, registry, lastExec, config, history, iterations, totalTokens,
                   ctx, pending, tcIndex, result>>

\* the for-loop left after its first pass
afterFirstToolCall(i) == "iterate"
\* where the for-loop over the tool calls goes after call number i
afterToolCall(i) == IF i < Len(pending) THEN "tools" ELSE "iterate"

\* one pass of the for-loop: execute the call, push its tool message; were
\* execute to throw, nothing in run would catch it
ToolStep(b) ==
    /\ pc = "tools"
    /\ LET tc == pending[tcIndex]
           rec == ExecRecord(registry, tc.name, tc.arguments, b)
       IN  /\ lastExec' = rec
           /\ IF rec.out.threw
              THEN /\ pc' = "failed"
                   /\ obs' = [obs EXCEPT !.failedAt = "tool",
                                         !.executed = Append(@, tc)]
                   /\ UNCHANGED <<history, tcIndex>>
              ELSE /\ history' = Append(history, ToolMessage(tc, rec.out.text))
                   /\ obs' = [obs EXCEPT
                                !.appended = Append(@, ToolMessage(tc, rec.out.text)),
                                !.executed = Append(@, tc)]
                   /\ tcIndex' = tcIndex + 1
                   /\ pc' = afterToolCall(tcIndex)
    /\ UNCHANGED <<stack, memory, extraSections, lastCall, heap, registry, config, iterations, totalTokens, ctx, pending,
                   result>>

\* [...history].reverse().find(m => m.role === "assistant" && m.content)
lastAssistantContent(h) ==
    LET idx == { i \in 1..Len(h) :
                   h[i].role = "assistant" /\ h[i].content # Null /\ h[i].content # <<>> }
    IN  IF idx = {} THEN Null
        ELSE h[CHOOSE i \in idx : \A j \in idx : j <= i].content

\* the loop ends by its condition: the fallback answer
Fallback ==
    /\ pc = "iterate"
    /\ ~loopContinues
    /\ LET last == lastAssistantContent(history)
           fallback == IF last = Null THEN FallbackText ELSE last
           newHistory == Append(history, AssistantFinal(fallback, Null))
       IN  /\ history' = newHistory
           /\ result' = [returned |-> TRUE, response |-> fallback,
                         messages |-> newHistory, iterations |-> iterations,
                         totalTokens |-> totalTokens]
    /\ pc' = "done"
    /\ obs' = [obs EXCEPT !.appended = Append(@, history'[Len(history')])]
    /\ UNCHANGED <<stack, memory, extraSections, lastCall, heap, registry, lastExec, config, iterations, totalTokens, ctx,
                   pending, tcIndex>>

\* a reset that re-creates the agent's collaborators as well
ResetAll ==
    /\ ~running
    /\ history' = <<>>
    /\ registry' = <<>>
    /\ pc' = "idle"
    /\ UNCHANGED <<stack, memory, extraSections, lastCall, heap, lastExec, config, iterations, totalTokens, ctx,
                   pending, tcIndex, result, obs>>

\* reset(), between runs
Reset ==
    /\ ~running
    /\ history' = <<>>
    /\ pc' = "idle"
    /\ UNCHANGED <<stack, memory, extraSections, lastCall, heap, registry, lastExec, config, iterations, totalTokens, ctx,
                   pending, tcIndex, result, obs>>

InitialRegistry == <<[name |-> "alpha", handler |-> "h1"],
                     [name |-> "beta", handler |-> "h2"]>>

Init ==
    /\ registry = InitialRegistry
    /\ lastExec = NoExec
    /\ config \in Configs
    /\ history = <<>>
    /\ pc = "idle"
    /\ iterations = 0
    /\ totalTokens = 0
    /\ ctx = NoCtx
    /\ pending = <<>>
    /\ tcIndex = 0
    /\ result = NoResult
    /\ obs = NewObs(0, <<>>)
    /\ lastCall = NoCall
    /\ heap = NoHeap
    /\ stack = <<>>
    /\ memory = NoMemory
    /\ extraSections = <<>>

Next ==
    \/ \E m \in UserMessages : Run(m)
    \/ BeginIteration
    \/ BeginCompaction
    \/ \E c \in SummaryChoices : CompactorReturns(c)
    \/ CompactorRaises
    \/ \E r \in LLMResponses : LLMReturnsCalls(r)
    \/ \E r \in LLMResponses : LLMReturnsFinal(r)
    \/ LLMRaises
    \/ \E b \in Behaviours : ToolStep(b)
    \/ Fallback
    \/ Reset

Spec == Init /\ [][Next]_vars

-----------------------------------------------------------------------------
(* The sessions_spawn tool: a child Agent runs inside the parent's tool call *)

SessionsTool == "sessions_spawn"

\* JSON.parse of the argument text of a sessions_spawn call; an absent string
\* is "", hasAllowlist tells an absent toolAllowlist from an empty one
parseSpawnArgs(s) ==
    [query |-> <<"Child task">>,
     subAgentName |->
        IF s = "{\"query\":\"Child task\",\"subAgentName\":\"Child\",\"toolAllowlist\":[]}"
        THEN "Child" ELSE "",
     additionalInstructions |->
        IF s = "{\"query\":\"Child task\",\"additionalInstructions\":\"Be brief.\",\"toolAllowlist\":[\"sessions_spawn\"]}"
        THEN <<"Be brief.">> ELSE <<>>,
     hasAllowlist |-> s # "{\"query\":\"Child task\"}",
     toolAllowlist |->
        IF s = "{\"query\":\"Child task\",\"toolAllowlist\":[\"alpha\"]}"
        THEN <<"alpha">>
        ELSE IF s = "{\"query\":\"Child task\",\"additionalInstructions\":\"Be brief.\",\"toolAllowlist\":[\"sessions_spawn\"]}"
        THEN <<SessionsTool>>
        ELSE <<>>]

\* maxIterations: options.parentOptions.config.maxIterations || 10
CHILD_MAX_ITERATIONS == 10

\* the config of the child Agent: the template is the config handed to
\* createSessionsTool; the child gets no compactor
childConfig(template, args) ==
    [template EXCEPT
        !.name = IF args.subAgentName = "" THEN "SubAgent" ELSE args.subAgentName,
        !.baseInstructions = @ \o <<"\n\n">> \o args.additionalInstructions,
        !.toolAllowlist = IF args.hasAllowlist THEN args.toolAllowlist ELSE @,
        !.maxIterations = IF @ = 0 THEN CHILD_MAX_ITERATIONS ELSE @,
        !.hasCompactor = FALSE]

\* options.parentOptions.config: the options of the agent set up with the tool
templateConfig == IF stack = <<>> THEN config ELSE stack[1].config

\* the message of the error llm.chat throws
LLMErrorMessage == <<"LLM request failed">>

spawnResponseText(name, response) ==
    <<"Sub-agent [", name, "] response:\n\n">> \o response

spawnErrorText(name, message) == <<"Sub-agent [", name, "] error: ">> \o message

\* the for-loop of run is at a call that execute hands to the spawn handler
isSpawnExecution ==
    /\ pc = "tools"
    /\ pending[tcIndex].name = SessionsTool
    /\ has(registry, SessionsTool)
    /\ JsonParses(pending[tcIndex].arguments)

\* the suspended run of the agent whose tool call is being executed
Suspended ==
    [config |-> config, history |-> history, iterations |-> iterations,
     totalTokens |-> totalTokens, ctx |-> ctx, pending |-> pending,
     tcIndex |-> tcIndex, result |-> result, obs |-> obs,
     extraSections |-> extraSections]

\* a child that is handed the parent's history to continue
SpawnInheriting ==
    /\ isSpawnExecution
    /\ Len(stack) < MaxDepth
    /\ LET args == parseSpawnArgs(pending[tcIndex].arguments)
       IN  /\ config' = childConfig(templateConfig, args)
           /\ history' = Append(history, UserMessage(args.query))
           /\ obs' = NewObs(0, args.query)
    /\ stack' = Append(stack, Suspended)
    /\ iterations' = 0
    /\ totalTokens' = 0
    /\ result' = NoResult
    /\ pc' = "iterate"
    /\ lastExec' = NoExec
    /\ ctx' = NoCtx
    /\ pending' = <<>>
    /\ tcIndex' = 0
    /\ extraSections' = <<>>
    /\ registry' = constructAgent(registry, FALSE)
    /\ UNCHANGED <<memory, lastCall, heap>>

\* a handler that refuses to spawn from inside a child
SpawnOnce ==
    /\ isSpawnExecution
    /\ stack = <<>>
    /\ LET args == parseSpawnArgs(pending[tcIndex].arguments)
       IN  /\ config' = childConfig(templateConfig, args)
           /\ history' = <<UserMessage(args.query)>>
           /\ obs' = NewObs(0, args.query)
    /\ stack' = Append(stack, Suspended)
    /\ iterations' = 0
    /\ totalTokens' = 0
    /\ result' = NoResult
    /\ pc' = "iterate"
    /\ lastExec' = NoExec
    /\ ctx' = NoCtx
    /\ pending' = <<>>
    /\ tcIndex' = 0
    /\ extraSections' = <<>>
    /\ registry' = constructAgent(registry, FALSE)
    /\ UNCHANGED <<memory, lastCall, heap>>

\* the handler constructs the child and awaits childAgent.run(query): the
\* parent is suspended, the child's run reaches the head of its loop
Spawn ==
    /\ isSpawnExecution
    /\ Len(stack) < MaxDepth
    /\ LET args == parseSpawnArgs(pending[tcIndex].arguments)
       IN  /\ config' = childConfig(templateConfig, args)
           /\ history' = <<UserMessage(args.query)>>
           /\ obs' = NewObs(0, args.query)
    /\ stack' = Append(stack, Suspended)
    /\ iterations' = 0
    /\ totalTokens' = 0
    /\ result' = NoResult
    /\ pc' = "iterate"
    /\ lastExec' = NoExec
    /\ ctx' = NoCtx
    /\ pending' = <<>>
    /\ tcIndex' = 0
    /\ extraSections' = <<>>
    /\ registry' = constructAgent(registry, FALSE)
    /\ UNCHANGED <<memory, lastCall, heap>>

\* the text of a handler that does not await the child's run
spawnTextDetached == spawnResponseText(config.name, <<"undefined">>)

\* what the handler returns once the child's run has returned or thrown
spawnText ==
    IF pc = "done"
    THEN spawnResponseText(config.name, result.response)
    ELSE spawnErrorText(config.name, LLMErrorMessage)

\* a handler without the catch: the child's error leaves the parent's run
SpawnReturnsRethrows ==
    /\ stack # <<>>
    /\ pc \in {"done", "failed"}
    /\ LET f == stack[Len(stack)]
           tc == f.pending[f.tcIndex]
           toolMessage == ToolMessage(tc, spawnText)
       IN  /\ config' = f.config
           /\ history' = IF pc = "done" THEN Append(f.history, toolMessage)
                         ELSE f.history
           /\ obs' = IF pc = "done"
                     THEN [f.obs EXCEPT !.appended = Append(@, toolMessage),
                                        !.executed = Append(@, tc)]
                     ELSE [f.obs EXCEPT !.failedAt = "tool"]
           /\ iterations' = f.iterations
           /\ totalTokens' = f.totalTokens
           /\ ctx' = f.ctx
           /\ pending' = f.pending
           /\ tcIndex' = IF pc = "done" THEN f.tcIndex + 1 ELSE f.tcIndex
           /\ result' = f.result
           /\ pc' = IF pc = "failed" THEN "failed"
                    ELSE IF f.tcIndex < Len(f.pending) THEN "tools" ELSE "iterate"
           /\ lastExec' = NoExec
    /\ stack' = SubSeq(stack, 1, Len(stack) - 1)
    /\ extraSections' = stack[Len(stack)].extraSections
    /\ UNCHANGED <<registry, memory, lastCall, heap>>

\* the child's run is over: the handler returns its text, execute returns
\* it, and the parent pushes the tool message and goes on with its for-loop
SpawnReturns ==
    /\ stack # <<>>
    /\ pc \in {"done", "failed"}
    /\ LET f == stack[Len(stack)]
           tc == f.pending[f.tcIndex]
           toolMessage == ToolMessage(tc, spawnText)
       IN  /\ config' = f.config
           /\ history' = Append(f.history, toolMessage)
           /\ obs' = [f.obs EXCEPT !.appended = Append(@, toolMessage),
                                   !.executed = Append(@, tc)]
           /\ iterations' = f.iterations
           /\ totalTokens' = f.totalTokens
           /\ ctx' = f.ctx
           /\ pending' = f.pending
           /\ tcIndex' = f.tcIndex + 1
           /\ result' = f.result
           /\ pc' = IF f.tcIndex < Len(f.pending) THEN "tools" ELSE "iterate"
           /\ lastExec' =
                 [name |-> tc.name, args |-> tc.arguments,
                  behaviour |-> [kind |-> "return", text |-> spawnText],
                  registered |-> TRUE,
                  out |-> [text |-> spawnText, threw |-> FALSE, invoked |-> 1,
                           handler |-> registry[IndexOf(registry, tc.name)].handler]]
    /\ stack' = SubSeq(stack, 1, Len(stack) - 1)
    /\ extraSections' = stack[Len(stack)].extraSections
    /\ UNCHANGED <<registry, memory, lastCall, heap>>

\* the calls the LLM returns to an agent that has the sessions tool
SpawnCalls ==
    { [id |-> "s1", name |-> SessionsTool, arguments |-> a] : a \in SpawnJson }

SessionResponses ==
    [content : { <<"Sub-agent result.">> }, toolCalls : {<<>>},
     reasoningContent : {Null}]
        \cup [content : {Null}, toolCalls : { <<tc>> : tc \in SpawnCalls },
              reasoningContent : {Null}]
        \cup [content : {Null},
              toolCalls : { << [id |-> "s1", name |-> SessionsTool,
                                arguments |-> "{\"query\":\"Child task\"}"],
                               [id |-> "c1", name |-> "alpha",
                                arguments |-> "{\"input\":\"hello\"}"] >>,
                            << [id |-> "c1", name |-> "alpha",
                                arguments |-> "{\"input\":\"hello\"}"],
                               [id |-> "s1", name |-> SessionsTool,
                                arguments |-> "{\"query\":\"Child task\"}"] >>,
                            << [id |-> "s1", name |-> SessionsTool,
                                arguments |-> "{\"query\":\"Child task\"}"],
                               [id |-> "s2", name |-> SessionsTool,
                                arguments |-> "{\"query\":\"Child task\",\"toolAllowlist\":[\"alpha\"]}"] >> },
              reasoningContent : {Null}]

SessionRegistry == <<[name |-> "alpha", handler |-> "h1"],
                     [name |-> SessionsTool, handler |-> "spawn"]>>

SessionConfigs ==
    [name : {"parent-agent"}, model : {"mock"},
     baseInstructions : { <<"You are a parent assistant.">> },
     maxIterations : 2..MaxSessionIter,
     toolAllowlist : { <<>>, <<SessionsTool>> },
     hasCompactor : BOOLEAN,
     keepRecentCount : {1}]

\* the parent is given no memory, or one whose file has content
SessionMemories == {NoMemory, [configured |-> TRUE, file |-> <<"Likes tea.">>]}

InitSessions ==
    /\ memory \in SessionMemories
    /\ registry = constructAgent(SessionRegistry, memory.configured)
    /\ lastExec = NoExec
    /\ config \in SessionConfigs
    /\ history = <<>>
    /\ pc = "idle"
    /\ iterations = 0
    /\ totalTokens = 0
    /\ ctx = NoCtx
    /\ pending = <<>>
    /\ tcIndex = 0
    /\ result = NoResult
    /\ obs = NewObs(0, <<>>)
    /\ lastCall = NoCall
    /\ heap = NoHeap
    /\ stack = <<>>
    /\ extraSections = <<>>

\* the LLM is shared by parent and children; an agent at the greatest depth
\* of the model is not given spawn calls to execute
NextSessions ==
    \/ \E m \in UserMessages : pc = "idle" /\ Run(m)
    \/ BeginIteration
    \/ BeginCompaction
    \/ \E c \in SummaryChoices : CompactorReturns(c)
    \/ CompactorRaises
    \/ \E r \in SessionResponses :
          /\ Len(stack) < MaxDepth \/ Len(r.toolCalls) = 0
          /\ LLMReturnsCalls(r)
    \/ \E r \in SessionResponses : LLMReturnsFinal(r)
    \/ LLMRaises
    \/ \E b \in Behaviours : ~isSpawnExecution /\ ToolStep(b)
    \/ Spawn
    \/ SpawnReturns

SpecSessions == InitSessions /\ [][NextSessions]_vars

-----------------------------------------------------------------------------
(* LongTermMemory and the update_memory tool: an Agent given a memory *)

\* JSON.parse(s).content of an update_memory call; Null when there is none
parseMemoryContent(s) ==
    IF s = "{\"content\":\"Likes tea.\"}" THEN <<"Likes tea.">>
    ELSE IF s = "{\"content\":\"Prefers Rust.\"}" THEN <<"Prefers Rust.">>
    ELSE IF s = "{\"content\":\"\"}" THEN <<>>
    ELSE Null

\* the TypeError of writeFile(path, undefined, "utf-8")
WriteTypeError ==
    <<"The \"data\" argument must be of type string or an instance of Buffer, TypedArray, or DataView. Received undefined">>

MemoryUpdated == <<"Long-term memory updated successfully.">>

\* what the update_memory handler does when called with the parsed arguments
memoryBehaviour(argsJson) ==
    IF parseMemoryContent(argsJson) = Null
    THEN [kind |-> "throw", text |-> WriteTypeError]
    ELSE [kind |-> "return", text |-> MemoryUpdated]

isMemoryExecution ==
    /\ pc = "tools"
    /\ pending[tcIndex].name = UpdateMemoryTool
    /\ has(registry, UpdateMemoryTool)

\* run executes an update_memory call: execute parses the arguments and calls
\* the handler, which writes the file and returns, or throws into execute's catch
UpdateMemory ==
    /\ isMemoryExecution
    /\ LET tc == pending[tcIndex]
           b == memoryBehaviour(tc.arguments)
           rec == ExecRecord(registry, tc.name, tc.arguments, b)
       IN  /\ lastExec' = rec
           /\ memory' = IF rec.out.invoked = 1 /\ b.kind = "return"
                        THEN write(memory, parseMemoryContent(tc.arguments))
                        ELSE memory
           /\ history' = Append(history, ToolMessage(tc, rec.out.text))
           /\ obs' = [obs EXCEPT
                        !.appended = Append(@, ToolMessage(tc, rec.out.text)),
                        !.executed = Append(@, tc)]
           /\ tcIndex' = tcIndex + 1
           /\ pc' = afterToolCall(tcIndex)
           /\ lastCall' = [op |-> UpdateMemoryTool,
                           content |-> IF JsonParses(tc.arguments)
                                       THEN parseMemoryContent(tc.arguments)
                                       ELSE Null,
                           before |-> read(memory), returned |-> rec.out.text]
    /\ UNCHANGED <<stack, extraSections, heap, registry, config,
                   iterations, totalTokens, ctx, pending, result>>

\* the host calls memory.write(content) itself
WriteMemory(content) ==
    /\ memory.configured
    /\ memory' = write(memory, content)
    /\ lastCall' = [op |-> "write", content |-> content,
                    before |-> read(memory), returned |-> <<>>]
    /\ UNCHANGED <<registry, lastExec, config, history, pc, iterations,
                   totalTokens, ctx, pending, tcIndex, result, obs, heap, stack,
                   extraSections>>

MemoryContents == {<<"Likes tea.">>, <<"Prefers Rust.">>, <<>>}

MemoryCalls ==
    { [id |-> "m1", name |-> UpdateMemoryTool, arguments |-> a] :
        a \in MemoryJson \cup {"{}", "not-json"} }

MemoryResponses ==
    [content : {<<"Noted.">>}, toolCalls : {<<>>}, reasoningContent : {Null}]
        \cup [content : {Null}, toolCalls : { <<tc>> : tc \in MemoryCalls },
              reasoningContent : {Null}]
        \cup [content : {Null},
              toolCalls : { << [id |-> "m1", name |-> UpdateMemoryTool,
                                arguments |-> "{\"content\":\"Likes tea.\"}"],
                               [id |-> "m2", name |-> UpdateMemoryTool,
                                arguments |-> "{\"content\":\"Prefers Rust.\"}"] >>,
                            << [id |-> "c1", name |-> "alpha",
                                arguments |-> "{\"input\":\"hello\"}"] >> },
              reasoningContent : {Null}]

MemoryConfigs ==
    [name : {"memo-agent"}, model : {"mock"},
     baseInstructions : {<<"You are a helpful assistant.">>},
     maxIterations : {MaxMemoryIter}, toolAllowlist : {<<>>},
     hasCompactor : {FALSE}, keepRecentCount : {1}]

InitMemory ==
    /\ memory \in [configured : BOOLEAN, file : {Null, <<"Likes tea.">>}]
    /\ registry = constructAgent(<<[name |-> "alpha", handler |-> "h1"]>>, memory.configured)
    /\ extraSections \in {<<>>, <<[heading |-> "Workspace", content |-> <<"/repo">>]>>}
    /\ lastExec = NoExec
    /\ config \in MemoryConfigs
    /\ history = <<>>
    /\ pc = "idle"
    /\ iterations = 0
    /\ totalTokens = 0
    /\ ctx = NoCtx
    /\ pending = <<>>
    /\ tcIndex = 0
    /\ result = NoResult
    /\ obs = NewObs(0, <<>>)
    /\ lastCall = NoCall
    /\ heap = NoHeap
    /\ stack = <<>>

NextMemory ==
    \/ \E m \in UserMessages : Run(m)
    \/ BeginIteration
    \/ \E r \in MemoryResponses : LLMReturnsCalls(r)
    \/ \E r \in MemoryResponses : LLMReturnsFinal(r)
    \/ LLMRaises
    \/ \E b \in Behaviours : ~isMemoryExecution /\ ToolStep(b)
    \/ UpdateMemory
    \/ \E c \in MemoryContents : WriteMemory(c)

SpecMemory == InitMemory /\ [][NextMemory]_vars

-----------------------------------------------------------------------------
(* The registry on its own: register, unregister and execute called directly *)

\* registry.register(tool)
Register(name, h) ==
    /\ registry' = register(registry, name, h)
    /\ lastExec' = NoExec
    /\ lastCall' = [op |-> "register", name |-> name, handler |-> h,
                    before |-> registry, threw |-> registerThrows(registry, name)]
    /\ UNCHANGED <<agentVars, heap>>

\* registry.unregister(name)
Unregister(name) ==
    /\ registry' = unregister(registry, name)
    /\ lastExec' = NoExec
    /\ lastCall' = [op |-> "unregister", name |-> name, before |-> registry,
                    returned |-> unregisterReturns(registry, name)]
    /\ UNCHANGED <<agentVars, heap>>

\* registry.execute(name, argsJson), the handler behaving as b if it is called
Execute(name, argsJson, b) ==
    /\ lastExec' = ExecRecord(registry, name, argsJson, b)
    /\ lastCall' = NoCall
    /\ UNCHANGED <<heap, registry, agentVars>>

\* registry.filteredDefinitions(allowlist)
FilteredDefinitions(allowlist) ==
    /\ lastCall' = [op |-> "filteredDefinitions", allowlist |-> allowlist,
                    result |-> filteredDefinitions(registry, allowlist)]
    /\ lastExec' = NoExec
    /\ UNCHANGED <<heap, registry, agentVars>>

InitRegistry ==
    /\ registry = <<>>
    /\ lastExec = NoExec
    /\ config = [name |-> "test-agent", model |-> "mock",
                 baseInstructions |-> <<"You are a helpful test agent.">>,
                 maxIterations |-> 1, toolAllowlist |-> <<>>,
                 hasCompactor |-> FALSE, keepRecentCount |-> 1]
    /\ history = <<>>
    /\ pc = "idle"
    /\ iterations = 0
    /\ totalTokens = 0
    /\ ctx = NoCtx
    /\ pending = <<>>
    /\ tcIndex = 0
    /\ result = NoResult
    /\ obs = NewObs(0, <<>>)
    /\ lastCall = NoCall
    /\ heap = NoHeap
    /\ stack = <<>>
    /\ memory = NoMemory
    /\ extraSections = <<>>

NextRegistry ==
    \/ \E n \in ToolNames, h \in HandlerIds : Register(n, h)
    \/ \E n \in ToolNames : Unregister(n)
    \/ \E a \in Allowlists : FilteredDefinitions(a)
    \/ \E n \in ToolNames, a \in ArgsJson, b \in Behaviours : Execute(n, a, b)

SpecRegistry == InitRegistry /\ [][NextRegistry]_vars

-----------------------------------------------------------------------------
(* ContextBuilder and MemoryCompactor called directly: the inputs are drawn
   in the initial state and every action applies one operation to them *)

\* the messages of the input histories: 1, 0 and 10 estimated tokens
InputMessages ==
    { UserMessage(<<"Hi">>),
      Message("assistant", Null, <<[id |-> "c1", name |-> "alpha",
                                    arguments |-> "{}"]>>, NoId, NoId, Null),
      Message("tool", <<"0123456789012345678901234567890123456789">>, NoCalls,
              "c1", "alpha", Null) }

InputHistories == UNION { [1..n -> InputMessages] : n \in 0..MaxHistory }

\* the message budgets: negative, zero, and around the sizes of the histories
Budgets == { -5, 0, 5, 15, 40 }

ContextConfigs ==
    [name : {"test-agent"}, model : {"mock"},
     baseInstructions : { <<"You are a helpful test agent.">> },
     maxIterations : {1},
     toolAllowlist : { <<>> },
     hasCompactor : BOOLEAN,
     keepRecentCount : 0..MaxKeep]

\* the record of a direct call: the inputs stay, the operation and its
\* outcome are replaced
Called(op, out) ==
    [op |-> op, messages |-> lastCall.messages,
     maxContextTokens |-> lastCall.maxContextTokens, out |-> out]

\* the budget build computes for the inputs
InputBudget ==
    budgetAt(lastCall.maxContextTokens, systemPromptOf(config, registry))

ContextFrame ==
    UNCHANGED <<registry, lastExec, config, history, pc, iterations,
                totalTokens, ctx, pending, tcIndex, result, obs, heap, stack,
                memory, extraSections>>

\* pruneMessages(messages, budget), and pruneMessages of what it returned
PruneMessages ==
    /\ \E r \in {pruneMessages(lastCall.messages, InputBudget)} :
          lastCall' = Called("pruneMessages",
                             [first |-> r, second |-> pruneMessages(r, InputBudget)])
    /\ ContextFrame

\* contextBuilder.build(messages)
Build(llmContent) ==
    /\ lastCall' = Called("build",
                          build(config, registry, lastCall.maxContextTokens,
                                lastCall.messages, llmContent))
    /\ ContextFrame

\* compactor.shouldCompact(messages, budget)
ShouldCompact ==
    /\ lastCall' = Called("shouldCompact",
                          shouldCompact(lastCall.messages, InputBudget))
    /\ ContextFrame

\* compactor.compact(messages)
Compact(llmContent) ==
    /\ lastCall' = Called("compact",
                          compactOutcome(lastCall.messages,
                                         config.keepRecentCount, llmContent))
    /\ ContextFrame

InitContext ==
    /\ registry = <<>>
    /\ lastExec = NoExec
    /\ config \in ContextConfigs
    /\ history = <<>>
    /\ pc = "idle"
    /\ iterations = 0
    /\ totalTokens = 0
    /\ ctx = NoCtx
    /\ pending = <<>>
    /\ tcIndex = 0
    /\ result = NoResult
    /\ obs = NewObs(0, <<>>)
    /\ heap = NoHeap
    /\ stack = <<>>
    /\ memory = NoMemory
    /\ extraSections = <<>>
    /\ \E m \in InputHistories, b \in Budgets :
          lastCall = [op |-> "none", messages |-> m,
                      maxContextTokens |->
                          b + estimateTokens(systemPromptOf(config, registry))]

NextContext ==
    \/ PruneMessages
    \/ \E c \in SummaryChoices : Build(c)
    \/ ShouldCompact
    \/ \E c \in SummaryChoices : Compact(c)

SpecContext == InitContext /\ [][NextContext]_vars

-----------------------------------------------------------------------------
(* The arrays and message objects behind getHistory() and result.messages:
   the Agent's operations and the caller's changes to what was returned *)

\* the value of an array of references: the contents of its messages
Contents(objects, array) == [i \in 1..Len(array) |-> objects[array[i]]]

\* [...array] with one more reference, to a new object at the end of objects
Pushed(objects, array) == Append(array, Len(objects) + 1)

\* the heap after the Agent has left its history in array stored and
\* returned the array snapshot
AgentReturned(objects, stored, snapshot) ==
    [objects |-> objects, stored |-> stored, snapshot |-> snapshot,
     returned |-> TRUE, kept |-> Contents(objects, stored),
     held |-> Contents(objects, snapshot)]

\* the frame of the operations on arrays and objects
HeapFrame ==
    UNCHANGED <<registry, lastExec, config, history, pc, iterations,
                totalTokens, ctx, pending, tcIndex, result, obs, lastCall, stack,
                memory, extraSections>>

\* run(userMessage) answered at once: the user message is pushed, build may
\* replace the array by [summaryMessage, ...recent], the final message is
\* pushed, and messages: [...this.conversationHistory] is returned
RunOnHeap(compacts) ==
    /\ Len(heap.objects) + (IF compacts THEN 3 ELSE 2) <= MaxObjects
    /\ compacts => Len(heap.stored) + 1 > config.keepRecentCount + 2
    /\ LET withUser == Pushed(heap.objects, heap.stored)
           objectsU == Append(heap.objects, "user")
           built == IF compacts
                    THEN <<Len(objectsU) + 1>>
                           \o SubSeq(withUser,
                                     Len(withUser) - config.keepRecentCount + 1,
                                     Len(withUser))
                    ELSE withUser
           objectsB == IF compacts THEN Append(objectsU, "summary") ELSE objectsU
           final == Pushed(objectsB, built)
           objectsF == Append(objectsB, "assistant")
       IN  heap' = AgentReturned(objectsF, final, final)
    /\ HeapFrame

\* getHistory(): return [...this.conversationHistory]
GetHistory ==
    /\ heap' = AgentReturned(heap.objects, heap.stored, heap.stored)
    /\ HeapFrame

\* reset(): this.conversationHistory = []
ResetOnHeap ==
    /\ heap.stored # <<>>
    /\ heap' = [heap EXCEPT !.stored = <<>>, !.kept = <<>>]
    /\ HeapFrame

\* the heap after the caller has changed what it was returned
CallerLeft(objects, snapshot) ==
    [heap EXCEPT !.objects = objects, !.snapshot = snapshot,
                 !.held = Contents(objects, snapshot)]

\* the caller pushes a message of its own onto the returned array
CallerAdds ==
    /\ heap.returned
    /\ Len(heap.objects) + 1 <= MaxObjects
    /\ heap' = CallerLeft(Append(heap.objects, "caller"),
                          Pushed(heap.objects, heap.snapshot))
    /\ HeapFrame

\* the caller pops the last message off the returned array
CallerRemoves ==
    /\ heap.returned
    /\ heap.snapshot # <<>>
    /\ heap' = CallerLeft(heap.objects,
                          SubSeq(heap.snapshot, 1, Len(heap.snapshot) - 1))
    /\ HeapFrame

\* the caller assigns the content of the i-th message of the returned array
CallerEdits(i) ==
    /\ heap.returned
    /\ i \in 1..Len(heap.snapshot)
    /\ heap.objects[heap.snapshot[i]] # "edited"
    /\ heap' = CallerLeft([heap.objects EXCEPT ![heap.snapshot[i]] = "edited"],
                          heap.snapshot)
    /\ HeapFrame

InitSnapshot == InitRegistry

NextSnapshot ==
    \/ \E compacts \in BOOLEAN : RunOnHeap(compacts)
    \/ GetHistory
    \/ ResetOnHeap
    \/ CallerAdds
    \/ CallerRemoves
    \/ \E i \in 1..MaxObjects : CallerEdits(i)

SpecSnapshot == InitSnapshot /\ [][NextSnapshot]_vars

-----------------------------------------------------------------------------
(* Properties of ToolRegistry.execute, stated for SpecRegistry *)

\* whether lastExec records an execute call
Executed == lastExec.name # ""

\* C9: execute on a name that is not registered when it is called returns the
\* text {"error":"Unknown tool: <name>"}, throws nothing and calls no handler,
\* whatever the argument string (malformed JSON included).
C9_UnknownTool ==
    (Executed /\ ~lastExec.registered) =>
        /\ ~lastExec.out.threw
        /\ lastExec.out.invoked = 0
        /\ lastExec.out.handler = NoHandler
        /\ lastExec.out.text = ErrorJson(<<"Unknown tool: ", lastExec.name>>)
        /\ ErrorField(lastExec.out.text) = <<"Unknown tool: ", lastExec.name>>

\* an unregistered name was executed with malformed arguments while other
\* tools were registered
C9_Witness ==
    /\ Executed
    /\ ~lastExec.registered
    /\ lastExec.name = "alpha"
    /\ ~JsonParses(lastExec.args)
    /\ Len(registry) > 0

\* C10: execute on a registered name never throws: arguments that do not
\* parse give an error text without the handler being called, a handler that
\* raises gives {"error": <its message>}, and a handler that returns gives
\* its return value unchanged.
C10_RegisteredTool ==
    (Executed /\ lastExec.registered) =>
        /\ ~lastExec.out.threw
        /\ ~JsonParses(lastExec.args) =>
              /\ lastExec.out.invoked = 0
              /\ ErrorField(lastExec.out.text) # Null
        /\ (JsonParses(lastExec.args) /\ lastExec.behaviour.kind = "throw") =>
              /\ lastExec.out.invoked = 1
              /\ lastExec.out.text = ErrorJson(lastExec.behaviour.text)
        /\ (JsonParses(lastExec.args) /\ lastExec.behaviour.kind = "return") =>
              /\ lastExec.out.invoked = 1
              /\ lastExec.out.text = lastExec.behaviour.text

\* a registered tool was executed with arguments that parse and its handler
\* raised
C10_Witness ==
    /\ Executed
    /\ lastExec.registered
    /\ JsonParses(lastExec.args)
    /\ lastExec.behaviour.kind = "throw"
    /\ lastExec.out.invoked = 1

-----------------------------------------------------------------------------
(* Properties of Agent.run, stated for Spec *)

\* the tool definitions build selects for the agent's allowlist
SelectedTools == filteredDefinitions(registry, config.toolAllowlist)

\* C1: with maxIterations >= 1, a run that returns reports a number of
\* iterations between 1 and maxIterations that equals the number of main-loop
\* LLM calls it made; the k-th call is made in iteration k, with no tools when
\* k = maxIterations and with the allowlist-selected definitions before that.
C1_IterationsAndTools ==
    maxIter >= 1 =>
        /\ Len(obs.chatTools) = obs.llmCalls
        /\ Len(obs.chatIterations) = obs.llmCalls
        /\ \A k \in 1..obs.llmCalls :
              /\ obs.chatIterations[k] = k
              /\ k <= maxIter
              /\ obs.chatTools[k] = IF k = maxIter THEN <<>> ELSE SelectedTools
        /\ (pc = "done" /\ result.returned) =>
              /\ result.iterations >= 1
              /\ result.iterations <= maxIter
              /\ result.iterations = obs.llmCalls

\* a run with maxIterations 3 returned after three LLM calls, the last one
\* made without tools although tools were selected
C1_Witness ==
    /\ pc = "done"
    /\ result.returned
    /\ maxIter = 3
    /\ result.iterations = 3
    /\ obs.llmCalls = 3
    /\ SelectedTools # <<>>
    /\ obs.chatTools = <<SelectedTools, SelectedTools, <<>> >>

\* whether each tool message of h answers a call of an earlier assistant message
ToolIdsResolved(h) ==
    \A i \in 1..Len(h) :
        h[i].role = "tool" =>
            \E j \in 1..(i - 1) :
                /\ h[j].role = "assistant"
                /\ \E k \in 1..Len(h[j].tool_calls) :
                      h[j].tool_calls[k].id = h[i].tool_call_id

\* C2: in every reachable history, each tool message carries the id of a
\* tool call of an assistant message that appears earlier in the history.
C2_ToolMessagesReferToCalls == ToolIdsResolved(history)

\* whether h holds, from position pos on, the assistant message of response r
\* followed by the tool messages of the first n calls of r, in call order
ExchangeAt(h, pos, r, n) ==
    /\ pos >= 1
    /\ pos + n <= Len(h)
    /\ h[pos] = AssistantCalls(r)
    /\ \A j \in 1..n :
          /\ h[pos + j].role = "tool"
          /\ h[pos + j].tool_call_id = r.toolCalls[j].id
          /\ h[pos + j].name = r.toolCalls[j].name

\* the response whose tool calls are being executed, or were executed last
LastResponse == obs.responses[Len(obs.responses)]

\* C3: while the calls c1..ck of a response are executed, the history ends
\* with the assistant message recording c1..ck followed by the tool messages
\* of the calls executed so far, in call order with matching id and name; when
\* the loop returns to its head all k tool messages are there, before any
\* further assistant message is appended.
C3_ToolMessagesFollowCalls ==
    /\ pc = "tools" =>
          /\ obs.responses # <<>>
          /\ pending = LastResponse.toolCalls
          /\ tcIndex \in 1..Len(pending)
          /\ ExchangeAt(history, Len(history) - (tcIndex - 1), LastResponse,
                        tcIndex - 1)
    /\ (pc = "iterate" /\ obs.responses # <<>>) =>
          /\ pending = LastResponse.toolCalls
          /\ Len(pending) >= 1
          /\ ExchangeAt(history, Len(history) - Len(pending), LastResponse,
                        Len(pending))

\* two calls of one response have been executed and the loop is back at its head
C3_Witness ==
    /\ pc = "iterate"
    /\ obs.responses # <<>>
    /\ Len(pending) = 2
    /\ tcIndex = 3
    /\ history[Len(history)].tool_call_id = pending[2].id
    /\ history[Len(history) - 1].tool_call_id = pending[1].id

\* C4: when every LLM response carries at least one tool call, run returns
\* with iterations = maxIterations and a response containing "maximum number
\* of reasoning steps".
C4_CeilingResponse ==
    (pc = "done" /\ result.returned /\ obs.final.seen /\ obs.final.hadCalls) =>
        /\ result.iterations = maxIter
        /\ Contains(result.response, MaxStepsPhrase)

\* number of messages the exchanges of the responses rs take in the history
RECURSIVE SpanOf(_)
SpanOf(rs) ==
    IF rs = <<>> THEN 0 ELSE 1 + Len(Head(rs).toolCalls) + SpanOf(Tail(rs))

\* whether h is [user, then for each response of rs its assistant message and
\* its tool messages, then the final assistant message with content final]
ShapedHistory(h, userMessage, rs, final) ==
    /\ Len(h) = 2 + SpanOf(rs)
    /\ h[1] = UserMessage(userMessage)
    /\ \A i \in 1..Len(rs) :
          /\ Len(rs[i].toolCalls) >= 1
          /\ ExchangeAt(h, 2 + SpanOf(SubSeq(rs, 1, i - 1)), rs[i],
                        Len(rs[i].toolCalls))
    /\ h[Len(h)] = AssistantFinal(final, Null)

\* a run of a fresh agent without compactor has just returned on a response
\* that carries no tool calls
FreshRunAnswered ==
    /\ pc = "done"
    /\ obs.startLen = 0
    /\ ~config.hasCompactor
    /\ obs.final.seen
    /\ ~obs.final.hadCalls

\* C5 as stated: after tool calls in the first n iterations and a text-only
\* response in iteration n+1 the run returns iterations = n+1, a response
\* equal to that text, and the history [user, exchanges, assistant(final)].
C5_ResponseIsLLMText ==
    (FreshRunAnswered /\ obs.final.content # Null) =>
        /\ result.returned
        /\ result.iterations = Len(obs.responses) + 1
        /\ result.response = obs.final.content
        /\ ShapedHistory(history, obs.userMessage, obs.responses,
                         obs.final.content)

\* C5: after tool calls in the first n iterations (n <= maxIterations - 1)
\* and a response without tool calls in iteration n+1, the run returns
\* iterations = n+1 and the history [user, then per iteration the assistant
\* message with its tool messages, then assistant(final)]; the response and
\* the final message are the LLM's text with fake tool-call markup removed
\* and surrounding whitespace trimmed (an absent text gives the empty text).
C5_ResponseIsStrippedText ==
    FreshRunAnswered =>
        /\ Len(obs.responses) <= maxIter - 1
        /\ result.returned
        /\ result.iterations = Len(obs.responses) + 1
        /\ result.response = stripFakeToolCalls(OrEmpty(obs.final.content))
        /\ result.messages = history
        /\ ShapedHistory(history, obs.userMessage, obs.responses,
                         stripFakeToolCalls(OrEmpty(obs.final.content)))

\* a fresh run answered, after two iterations of tool calls, with a text that
\* carries markup and leading whitespace
C5_Witness ==
    /\ FreshRunAnswered
    /\ Len(obs.responses) = 2
    /\ Contains(obs.final.content, DSMLOpen)
    /\ result.response = <<"The answer.">>
    /\ result.response # obs.final.content

\* whether an execute call ended in one of the three error cases
IsErrorExec(rec) ==
    \/ ~rec.registered
    \/ ~JsonParses(rec.args)
    \/ rec.behaviour.kind = "throw"

\* C7: a tool call that names an unregistered tool, has malformed arguments
\* or whose handler raises never makes run fail: its error text is appended
\* as a tool message with the call's id (the text names "Unknown tool: " for
\* an unregistered tool), the for-loop stays within the calls of the response
\* until all are executed, and back at the loop head another iteration, hence
\* another LLM call, follows.
C7_ToolErrorsFedBack ==
    /\ obs.failedAt # "tool"
    /\ (pc \in {"tools", "iterate"} /\ tcIndex >= 2 /\ IsErrorExec(lastExec)) =>
          LET tc   == pending[tcIndex - 1]
              last == history[Len(history)]
          IN  /\ lastExec.name = tc.name
              /\ lastExec.args = tc.arguments
              /\ last = ToolMessage(tc, lastExec.out.text)
              /\ ErrorField(last.content) # Null
              /\ ~lastExec.registered =>
                    ErrorField(last.content) = <<"Unknown tool: ", tc.name>>
    /\ pc = "tools" => tcIndex \in 1..Len(pending)
    /\ (pc = "iterate" /\ iterations >= 1) =>
          /\ tcIndex = Len(pending) + 1
          /\ loopContinues

\* of two calls the first named an unregistered tool and the second's handler
\* raised; both got their tool message and the loop is back at its head
C7_Witness ==
    /\ pc = "iterate"
    /\ Len(pending) = 2
    /\ tcIndex = 3
    /\ pending[1].name = "ghost"
    /\ ErrorField(history[Len(history) - 1].content) = <<"Unknown tool: ", "ghost">>
    /\ lastExec.registered
    /\ lastExec.behaviour.kind = "throw"
    /\ lastExec.out.invoked = 1
    /\ loopContinues

\* whether the history ends with the messages the current run has appended
HistoryKeepsAppended ==
    /\ Len(history) = obs.startLen + Len(obs.appended)
    /\ SubSeq(history, obs.startLen + 1, Len(history)) = obs.appended

\* C8 as stated: once the main-loop LLM call has raised, the run makes no
\* further step, has returned no result, and the messages it had appended
\* are still in the history.
C8_AppendedMessagesRemain ==
    obs.failedAt = "llm" =>
        /\ ~running
        /\ ~result.returned
        /\ pc = "failed" => HistoryKeepsAppended

\* the step in which the main-loop LLM call raises
LLMFails == pc = "llm" /\ pc' = "failed"

\* C8: once the main-loop LLM call has raised, the run makes no further step
\* (no LLM call, no tool execution) and has returned no result; the failing
\* step leaves the history as it was when the call was made, so the messages
\* the run had appended remain unless a compaction of that run had already
\* replaced them by its summary.
C8_FailureLeavesHistory ==
    /\ [](obs.failedAt = "llm" =>
            /\ ~running
            /\ ~result.returned
            /\ (pc = "failed" /\ ~obs.compacted) => HistoryKeepsAppended)
    /\ [][LLMFails =>
            /\ history' = history
            /\ result' = NoResult
            /\ lastExec' = lastExec
            /\ obs'.llmCalls = obs.llmCalls
            /\ obs'.failedAt = "llm"]_vars

\* the LLM call of the second iteration raised after a completed tool exchange
C8_Witness ==
    /\ pc = "failed"
    /\ obs.failedAt = "llm"
    /\ obs.llmCalls = 2
    /\ Len(obs.responses) = 1
    /\ ~obs.compacted
    /\ Len(history) >= 3

-----------------------------------------------------------------------------
(* Termination: the run when every LLM call and every handler returns *)

\* a step the run takes by itself or on the return of a call it awaits
RunStep ==
    \/ BeginIteration
    \/ BeginCompaction
    \/ \E c \in SummaryChoices : CompactorReturns(c)
    \/ \E r \in LLMResponses : LLMReturnsCalls(r)
    \/ \E r \in LLMResponses : LLMReturnsFinal(r)
    \/ \E b \in Behaviours : ToolStep(b)
    \/ Fallback

NextReturning ==
    \/ \E m \in UserMessages : Run(m)
    \/ BeginIteration
    \/ BeginCompaction
    \/ \E c \in SummaryChoices : CompactorReturns(c)
    \/ \E r \in LLMResponses : LLMReturnsCalls(r)
    \/ \E r \in LLMResponses : LLMReturnsFinal(r)
    \/ \E b \in Behaviours : ToolStep(b)
    \/ Fallback
    \/ Reset

\* the run is never suspended forever: its own code runs on, and the calls it
\* awaits return
SpecReturning == Init /\ [][NextReturning]_vars /\ WF_vars(RunStep)

\* C6: when every LLM call and every handler returns, every run reaches
\* Done with a returned result; it makes at most maxIterations main-loop LLM
\* calls and at most one compactor call per iteration, and never fails.
C6_RunTerminates ==
    /\ running ~> (pc = "done" /\ result.returned)
    /\ [](/\ obs.llmCalls <= maxIter
          /\ iterations <= maxIter
          /\ obs.compactCalls <= iterations
          /\ pc # "failed"
          /\ pc = "done" => result.returned)

\* a run with maxIterations 3 returned at the ceiling, having called the
\* compactor on the way
C6_Witness ==
    /\ pc = "done"
    /\ result.returned
    /\ maxIter = 3
    /\ result.iterations = maxIter
    /\ obs.llmCalls = 3
    /\ obs.compactCalls >= 1

-----------------------------------------------------------------------------
(* Properties of ToolRegistry.register, unregister and filteredDefinitions,
   stated for SpecRegistry *)

\* whether no two entries of reg have the same name
UniqueNames(reg) ==
    \A i, j \in 1..Len(reg) : i # j => reg[i].name # reg[j].name

\* reg without the entry at position k
WithoutEntry(reg, k) == SubSeq(reg, 1, k - 1) \o SubSeq(reg, k + 1, Len(reg))

\* C11: the registry never holds two tools of one name; register with a taken
\* name throws and leaves the registry as it was (tool, handler and position
\* kept), register with a new name appends the tool; unregister returns true
\* and removes exactly that tool when the name is registered, and otherwise
\* returns false and changes nothing.
C11_RegisterUnregister ==
    /\ UniqueNames(registry)
    /\ lastCall.op = "register" =>
          IF \E i \in 1..Len(lastCall.before) :
                 lastCall.before[i].name = lastCall.name
          THEN lastCall.threw /\ registry = lastCall.before
          ELSE /\ ~lastCall.threw
               /\ registry = Append(lastCall.before,
                                    [name |-> lastCall.name,
                                     handler |-> lastCall.handler])
    /\ lastCall.op = "unregister" =>
          IF \E i \in 1..Len(lastCall.before) :
                 lastCall.before[i].name = lastCall.name
          THEN /\ lastCall.returned
               /\ \E k \in 1..Len(lastCall.before) :
                     /\ lastCall.before[k].name = lastCall.name
                     /\ registry = WithoutEntry(lastCall.before, k)
          ELSE ~lastCall.returned /\ registry = lastCall.before

\* register was called with the name of the first of two registered tools and
\* another handler: it threw, and the tool kept its handler and position
C11_Witness ==
    /\ lastCall.op = "register"
    /\ lastCall.threw
    /\ Len(registry) = 2
    /\ registry[1].name = lastCall.name
    /\ registry[1].handler # lastCall.handler

\* the set of the elements of a sequence
Range(seq) == { seq[i] : i \in 1..Len(seq) }

\* C12: filteredDefinitions with an absent or empty allowlist equals
\* allDefinitions; otherwise it returns exactly the definitions of the
\* registered tools named in the allowlist, each once, in registration order,
\* whatever the order or repetition of names in the allowlist and ignoring
\* names that are not registered.
C12_FilteredDefinitions ==
    lastCall.op = "filteredDefinitions" =>
        LET r == lastCall.result
        IN  /\ lastCall.allowlist = <<>> => r = allDefinitions(registry)
            /\ lastCall.allowlist # <<>> =>
                  /\ Range(r) = Range(names(registry)) \cap Range(lastCall.allowlist)
                  /\ \A i, j \in 1..Len(r) :
                        i < j => \E p, q \in 1..Len(registry) :
                                    /\ p < q
                                    /\ registry[p].name = r[i]
                                    /\ registry[q].name = r[j]

\* the allowlist named two registered tools in the reverse of their
\* registration order and the result came in registration order
C12_Witness ==
    /\ lastCall.op = "filteredDefinitions"
    /\ Len(registry) = 3
    /\ lastCall.allowlist = <<registry[3].name, registry[1].name>>
    /\ lastCall.result = <<registry[1].name, registry[3].name>>

-----------------------------------------------------------------------------
(* Properties of ContextBuilder.build and pruneMessages, stated for
   SpecContext *)

\* whether a message is the note pruneMessages puts in front
IsPruneNotice(m) ==
    /\ m.role = "system"
    /\ m.content # Null
    /\ Len(m.content) > 0
    /\ m.content[1] = "[Context note: "

\* how many messages of the history are missing from the built list
DroppedBy(built, conversationHistory) ==
    IF built = conversationHistory THEN 0
    ELSE Len(conversationHistory)
           - Cardinality({ i \in 1..Len(built) : ~IsPruneNotice(built[i]) })

\* C13: with no compactor, for every non-empty history and every budget
\* (zero and negative too) the list build returns ends with the most recent
\* message of the history, is a suffix of the history with or without the
\* notice in front, and starts with the notice exactly when at least one
\* message was dropped, the notice giving the number dropped.
C13_BuildKeepsMostRecent ==
    (lastCall.op = "build" /\ ~config.hasCompactor /\ Len(lastCall.messages) > 0) =>
        LET h == lastCall.messages
            r == lastCall.out.context.messages
            n == DroppedBy(r, h)
        IN  /\ Len(r) > 0
            /\ r[Len(r)] = h[Len(h)]
            /\ IsPruneNotice(r[1]) <=> n >= 1
            /\ n = 0 => r = h
            /\ n >= 1 => r = <<pruneNotice(n)>> \o SubSeq(h, n + 1, Len(h))

\* build was given a zero or negative budget and a history whose last message
\* alone exceeds it: everything before that message was dropped and counted
C13_Witness ==
    /\ lastCall.op = "build"
    /\ ~config.hasCompactor
    /\ lastCall.out.budget <= 0
    /\ Len(lastCall.messages) = 3
    /\ estimateTokens(OrEmpty(lastCall.messages[3].content)) = 10
    /\ lastCall.out.context.messages = <<pruneNotice(2), lastCall.messages[3]>>

\* C14: pruning the result of pruning, with the same budget, returns that
\* result unchanged.
C14_PruneIdempotent ==
    lastCall.op = "pruneMessages" => lastCall.out.second = lastCall.out.first

-----------------------------------------------------------------------------
(* Properties of MemoryCompactor.compact and shouldCompact, stated for
   SpecContext *)

\* C15: compact makes no LLM call and returns absent whenever the history has
\* at most keepRecentCount + 2 messages; whenever it succeeds the new history
\* has exactly 1 + keepRecentCount messages: a system message whose content
\* starts with the summary tag, then the last keepRecentCount messages of the
\* input, unchanged and in order.
C15_CompactFloorAndShape ==
    lastCall.op = "compact" =>
        LET h == lastCall.messages
            k == config.keepRecentCount
            o == lastCall.out
        IN  /\ Len(h) <= k + 2 => o.absent /\ o.llmCalls = 0
            /\ ~o.absent =>
                  /\ Len(o.messages) = 1 + k
                  /\ o.messages[1].role = "system"
                  /\ o.messages[1].content[1] = SummaryTag
                  /\ \A i \in 1..k : o.messages[1 + i] = h[Len(h) - k + i]

\* compact succeeded on a history of four messages with keepRecentCount 1
C15_Witness ==
    /\ lastCall.op = "compact"
    /\ config.keepRecentCount = 1
    /\ Len(lastCall.messages) = 4
    /\ ~lastCall.out.absent
    /\ lastCall.out.llmCalls = 1
    /\ lastCall.out.messages[2] = lastCall.messages[4]

\* what a successful compact returns: the prefix of length - keepRecentCount
\* messages is summarized and counted, the last keepRecentCount are kept
SummarizesPrefix(o, h, k) ==
    /\ o.llmCalls = 1
    /\ o.compactedCount = Len(h) - k
    /\ o.messages[1].content[3] = ToString(Len(h) - k)
    /\ SubSeq(o.messages, 2, Len(o.messages)) = SubSeq(h, Len(h) - k + 1, Len(h))

\* C16 as stated: compact returns absent exactly when the history has fewer
\* than keepRecentCount + 2 messages, and otherwise a result that summarizes
\* the prefix and keeps the last keepRecentCount messages.
C16_AbsentBelowFloor ==
    lastCall.op = "compact" =>
        LET h == lastCall.messages
            k == config.keepRecentCount
            o == lastCall.out
        IN  /\ o.absent <=> Len(h) < k + 2
            /\ Len(h) >= k + 2 => SummarizesPrefix(o, h, k)

\* C16 amended: compact returns absent exactly when the history has at most
\* keepRecentCount + 2 messages; for keepRecentCount + 3 or more it returns a
\* result that summarizes the prefix of length - keepRecentCount messages and
\* keeps the last keepRecentCount messages.
C16_AbsentUpToFloor ==
    lastCall.op = "compact" =>
        LET h == lastCall.messages
            k == config.keepRecentCount
            o == lastCall.out
        IN  /\ o.absent <=> Len(h) <= k + 2
            /\ Len(h) >= k + 3 => SummarizesPrefix(o, h, k)

\* compact was given exactly keepRecentCount + 2 messages and returned absent
C16_Witness ==
    /\ lastCall.op = "compact"
    /\ Len(lastCall.messages) = config.keepRecentCount + 2
    /\ lastCall.out.absent

\* estimated tokens of one message, absent content counted as 0
ContentTokens(m) == IF m.content = Null THEN 0 ELSE estimateTokens(m.content)

\* the sum of the estimated tokens of the messages' contents
RECURSIVE TokenSum(_)
TokenSum(messages) ==
    IF messages = <<>> THEN 0
    ELSE ContentTokens(Head(messages)) + TokenSum(Tail(messages))

\* C18: shouldCompact(messages, maxTokens) is true exactly when
\* 5 * (sum of estimated content tokens) > 4 * maxTokens; build evaluates it
\* on the history it is given against maxContextTokens minus the estimated
\* system-prompt tokens, so under a negative budget it fires for every history.
C18_ShouldCompactThreshold ==
    /\ lastCall.op = "shouldCompact" =>
          (lastCall.out <=> 5 * TokenSum(lastCall.messages) > 4 * InputBudget)
    /\ (lastCall.op = "build" /\ config.hasCompactor) =>
          /\ lastCall.out.budget = lastCall.maxContextTokens
                 - estimateTokens(systemPromptOf(config, registry))
          /\ lastCall.out.triggered <=>
                 5 * TokenSum(lastCall.messages) > 4 * lastCall.out.budget
          /\ lastCall.out.budget < 0 => lastCall.out.triggered

\* build fired the trigger on an empty history under a negative budget
C18_Witness ==
    /\ lastCall.op = "build"
    /\ config.hasCompactor
    /\ lastCall.out.budget < 0
    /\ lastCall.messages = <<>>
    /\ lastCall.out.triggered

-----------------------------------------------------------------------------
(* Properties of compaction inside run and of reset, stated for Spec *)

\* a step of run that begins, continues or ends a context build
BuildStep ==
    /\ pc \in {"iterate", "compacting"}
    /\ pc' \in {"compacting", "llm", "failed"}

\* the stored history was replaced by one summary message followed by the
\* last keepRecentCount messages of the previous history
ReplacedBySummary ==
    \E c \in SummaryChoices :
        history' = <<summaryMessage(history, config.keepRecentCount, summaryOf(c))>>
                     \o SubSeq(history, Len(history) - config.keepRecentCount + 1,
                               Len(history))

\* C17: across every context build of run the stored history is either left
\* exactly as it was, or (only with a compactor configured, triggered, not
\* refusing, and its LLM call returning) replaced by the summary message
\* followed by the last keepRecentCount messages of the previous history.
C17_CompactionAllOrNothing ==
    [][ BuildStep =>
          /\ history' = history \/ ReplacedBySummary
          /\ history' # history =>
                /\ config.hasCompactor
                /\ shouldCompact(history, budgetOf(config, registry))
                /\ Len(history) > config.keepRecentCount + 2
                /\ pc = "compacting" /\ pc' = "llm"
          /\ pc' = "failed" => history' = history ]_vars

\* a build of run has replaced a longer history by summary and recent message
C17_Witness ==
    /\ pc = "llm"
    /\ obs.compacted
    /\ Len(history) = 1 + config.keepRecentCount
    /\ history[1].role = "system"
    /\ history[1].content[1] = SummaryTag

\* a step that is a call of reset()
ResetStep == ~running /\ pc' = "idle"

\* the state of a freshly constructed agent whose run(m) has reached the head
\* of its loop
FreshlyStarted(m) ==
    /\ history = <<UserMessage(m)>>
    /\ iterations = 0
    /\ totalTokens = 0
    /\ result = NoResult
    /\ obs = NewObs(0, m)
    /\ pc = "iterate"
    /\ lastExec = NoExec
    /\ ctx = NoCtx
    /\ pending = <<>>
    /\ tcIndex = 0
    /\ registry = InitialRegistry

-----------------------------------------------------------------------------
(* Properties of getHistory() and result.messages, stated for SpecSnapshot *)

\* C20: what getHistory() and run return are snapshots: no change the caller
\* makes to a returned array or its messages alters the history the Agent
\* stores, and no later run, compaction or reset changes what was returned.
C20_SnapshotsIsolated ==
    heap.returned =>
        /\ Contents(heap.objects, heap.stored) = heap.kept
        /\ Contents(heap.objects, heap.snapshot) = heap.held

\* the arrays are apart: adding to and removing from a returned array leaves
\* the stored array with the messages the Agent put there
C20_ArraysApart ==
    heap.returned => Len(heap.stored) = Len(heap.kept)

\* no run, compaction or reset changes what was returned before
C20_ReturnedStable ==
    heap.returned => Contents(heap.objects, heap.snapshot) = heap.held

-----------------------------------------------------------------------------
(* Properties of the sessions_spawn tool, stated for SpecSessions *)

\* the current agent is a child
IsChild == stack # <<>>

\* the suspended parent of the current agent
Parent == stack[Len(stack)]

\* the spawn call the parent is executing
ParentCall == Parent.pending[Parent.tcIndex]

\* a step in which a child is handed back to its parent
ChildReturns == Len(stack') < Len(stack)

\* C21: a child starts on an empty history of its own: every LLM input built
\* for it is its system prompt followed by what build makes of the messages
\* of its own run, the first of which is the user message with the delegated
\* query, and holds no message of the parent's history; the parent's history
\* gains from the child the one tool message with the child's result text.
C21_ChildIsolated ==
    /\ [](IsChild =>
            /\ obs.startLen = 0
            /\ history = obs.appended
            /\ history[1] = UserMessage(parseSpawnArgs(ParentCall.arguments).query)
            /\ pc = "llm" =>
                  /\ ctx.messages =
                        llmMessages(buildResult(config, registry, obs.appended, FALSE),
                                    iterations)
                  /\ \A i \in 1..Len(ctx.messages) : \A k \in 1..Len(stack) :
                        \A j \in 1..Len(stack[k].history) :
                           ctx.messages[i] = stack[k].history[j] =>
                              \E n \in 1..Len(obs.appended) :
                                 obs.appended[n] = ctx.messages[i]
                  /\ \A i \in 1..Len(ctx.messages) :
                        ctx.messages[i] # stack[1].history[1])
    /\ [][ChildReturns =>
             /\ Len(history') = Len(Parent.history) + 1
             /\ SubSeq(history', 1, Len(Parent.history)) = Parent.history
             /\ history'[Len(history')] = ToolMessage(ParentCall, spawnText)]_vars

\* a child is in its second LLM call, with a tool exchange of its own in its
\* history, while its parent's history holds the parent's user message
C21_Witness ==
    /\ IsChild
    /\ pc = "llm"
    /\ iterations = 2
    /\ Len(history) = 3
    /\ stack[1].history[1] = UserMessage(<<"Hi">>)

\* C22: while a child is running its parent is suspended: it makes no LLM
\* call, starts no other tool execution and appends nothing to its history;
\* its tool message for the spawn call is appended only once the child's run
\* has returned or raised, and for a returned run carries the child's final
\* response text.
C22_ParentBlocked ==
    [][ /\ (IsChild /\ ~ChildReturns) => SubSeq(stack', 1, Len(stack)) = stack
        /\ ChildReturns =>
              /\ pc \in {"done", "failed"}
              /\ Len(stack') = Len(stack) - 1
              /\ obs'.llmCalls = Parent.obs.llmCalls
              /\ iterations' = Parent.iterations
              /\ pending' = Parent.pending
              /\ tcIndex' = Parent.tcIndex + 1
              /\ history' = Append(Parent.history, history'[Len(history')])
              /\ history'[Len(history')].role = "tool"
              /\ history'[Len(history')].tool_call_id = ParentCall.id
              /\ pc = "done" =>
                    /\ result.returned
                    /\ history'[Len(history')].content =
                          <<"Sub-agent [", config.name, "] response:\n\n">>
                             \o result.response ]_vars

\* the parent has got the tool message of a child that ran two iterations
C22_Witness ==
    /\ stack = <<>>
    /\ pc = "tools"
    /\ tcIndex = 2
    /\ lastExec.name = SessionsTool
    /\ history[Len(history)].content =
          <<"Sub-agent [", "SubAgent", "] response:\n\n", "Sub-agent result.">>

\* C23: a child's run that raises does not make the handler raise: the
\* handler returns a text with the sub-agent's name and the error message,
\* the text is appended to the parent's history as the tool message of the
\* spawn call, the parent's for-loop goes on, and back at the loop head
\* another iteration, hence another LLM call, follows.
C23_ChildErrorFedBack ==
    /\ [](stack = <<>> /\ pc = "failed" => obs.failedAt \in {"llm", "compactor"})
    /\ []((pc = "iterate" /\ iterations >= 1) => loopContinues)
    /\ [][(ChildReturns /\ pc = "failed") =>
             /\ pc' = IF Parent.tcIndex < Len(Parent.pending) THEN "tools" ELSE "iterate"
             /\ obs'.failedAt = "none"
             /\ history' =
                   Append(Parent.history,
                          ToolMessage(ParentCall,
                                      <<"Sub-agent [", config.name, "] error: ">>
                                         \o LLMErrorMessage))]_vars

\* the LLM call of a child failed and the parent is back at its loop head
\* with the error text as its last message
C23_Witness ==
    /\ stack = <<>>
    /\ pc = "iterate"
    /\ iterations = 1
    /\ history[Len(history)].role = "tool"
    /\ history[Len(history)].content =
          <<"Sub-agent [", "SubAgent", "] error: ">> \o LLMErrorMessage

\* C24: the tools offered to a child's LLM are among the tools offered to its
\* parent's LLM in the call that spawned it.
C24_ChildToolsNarrower ==
    (IsChild /\ pc = "llm") =>
        \A i \in 1..Len(ctx.tools) :
            \E j \in 1..Len(Parent.ctx.tools) : Parent.ctx.tools[j] = ctx.tools[i]

\* C25: nothing bounds the nesting: a child runs with the maxIterations of
\* the agent set up with the tool, and whenever the for-loop of an agent at
\* any depth is at a well-formed call of the registered sessions_spawn tool,
\* the handler spawns a child (below the greatest depth of the model).
C25_NestingUnbounded ==
    /\ IsChild => config.maxIterations = stack[1].config.maxIterations
    /\ (isSpawnExecution /\ Len(stack) < MaxDepth) => ENABLED Spawn

\* as many nested children as the model allows are running at once, the
\* innermost in its LLM call, each of the others suspended in a spawn call
C25_Witness ==
    /\ Len(stack) = MaxDepth
    /\ pc = "llm"
    /\ \A k \in 1..Len(stack) :
          stack[k].pending[stack[k].tcIndex].name = SessionsTool

-----------------------------------------------------------------------------
(* Properties of LongTermMemory, stated for SpecMemory *)

\* C27 as stated: read returns the content of the most recent write or
\* update_memory call, and every update_memory call returns the success text.
C27_LastWriteWinsAlways ==
    /\ memory.file = Null =>
          /\ read(memory) = <<>>
          /\ lastCall.op # "write"
          /\ lastCall.op = UpdateMemoryTool => lastCall.content = Null
    /\ lastCall.op = "write" => read(memory) = lastCall.content
    /\ lastCall.op = UpdateMemoryTool =>
          /\ read(memory) = lastCall.content
          /\ lastCall.returned = MemoryUpdated

\* C27, amended: read returns "" while nothing has been written; after a
\* write, or an update_memory call whose arguments parse and carry a content,
\* read returns exactly that content and the call returned the success text;
\* an update_memory call whose arguments do not parse or carry no content
\* returns an error text and leaves the document as it was.
C27_LastWriteWins ==
    /\ memory.file = Null =>
          /\ read(memory) = <<>>
          /\ lastCall.op # "write"
          /\ lastCall.op = UpdateMemoryTool => lastCall.content = Null
    /\ lastCall.op = "write" => read(memory) = lastCall.content
    /\ lastCall.op = UpdateMemoryTool =>
          IF lastCall.content # Null
          THEN /\ read(memory) = lastCall.content
               /\ lastCall.returned = MemoryUpdated
          ELSE /\ read(memory) = lastCall.before
               /\ ErrorField(lastCall.returned) # Null

\* an update_memory call has replaced a document that had other content
C27_Witness ==
    /\ lastCall.op = UpdateMemoryTool
    /\ lastCall.before = <<"Likes tea.">>
    /\ lastCall.content = <<"Prefers Rust.">>
    /\ read(memory) = <<"Prefers Rust.">>

MemoryHeading == "Long-Term Memory"

\* how many sections of the text are headed Long-Term Memory
HeadingCount(text) == Cardinality({ i \in 1..Len(text) : text[i] = MemoryHeading })

\* the text ends with the Long-Term Memory section holding content
EndsWithMemory(text, content) ==
    /\ Len(text) >= Len(content) + 3
    /\ SubSeq(text, Len(text) - Len(content) - 2, Len(text)) =
          <<"## ", MemoryHeading, "\n\n">> \o content

\* C28: every build reads the memory anew: the system prompt it makes ends
\* with one Long-Term Memory section holding the document's current content
\* when the agent is given a memory and the content is not empty, and has no
\* such section otherwise; the content of the most recent update_memory call
\* or write is what the next build of the run shows; the builder's stored
\* extra sections are never changed.
C28_MemoryReadEveryBuild ==
    [][ /\ extraSections' = extraSections
        /\ (pc = "iterate" /\ pc' = "llm") =>
              LET prompt == ctx'.messages[1].content
              IN  /\ IF memory.configured /\ read(memory) # <<>>
                     THEN /\ EndsWithMemory(prompt, read(memory))
                          /\ HeadingCount(prompt) = 1
                     ELSE HeadingCount(prompt) = 0
                  /\ ctx'.messages[1].role = "system"
                  /\ (lastCall.op \in {"write", UpdateMemoryTool}
                        /\ lastCall.content \notin {Null, <<>>})
                       => EndsWithMemory(prompt, lastCall.content) ]_vars

\* the second LLM call of a run gets the content that an update_memory call
\* of the first iteration wrote, after the builder's own extra section
C28_Witness ==
    /\ pc = "llm"
    /\ iterations = 2
    /\ extraSections # <<>>
    /\ lastCall.op = UpdateMemoryTool
    /\ lastCall.content = <<"Prefers Rust.">>
    /\ lastCall.before = <<"Likes tea.">>
    /\ EndsWithMemory(ctx.messages[1].content, <<"Prefers Rust.">>)

-----------------------------------------------------------------------------
(* Properties of the order of operations within a run *)

\* no tool call of the last response is unfinished
NoCallOutstanding(calls, index) ==
    index = Len(calls) + 1 \/ (calls = <<>> /\ index = 0)

\* the number of tool messages at the end of a history
RECURSIVE TrailingTools(_)
TrailingTools(h) ==
    IF h = <<>> \/ h[Len(h)].role # "tool" THEN 0
    ELSE 1 + TrailingTools(SubSeq(h, 1, Len(h) - 1))

\* a step of the current agent (no child is spawned or handed back)
SameAgent == Len(stack') = Len(stack)

\* C26: within one Agent's run at most one of the main LLM call, a tool
\* execution and the compactor's LLM call is under way: while an LLM call or
\* a compaction call is awaited every tool call of the previous response has
\* returned; while the for-loop is at call i (also while that call runs a
\* child) exactly the calls before i have returned and no later call, no LLM
\* call and no compaction call has been started; a compaction call is
\* started from the loop head only, and the main LLM call of that iteration
\* is started by the step in which the compaction call returns.
C26_OneOperationInFlight ==
    /\ [](pc \in {"llm", "compacting"} => NoCallOutstanding(pending, tcIndex))
    /\ [](pc = "tools" =>
            /\ tcIndex \in 1..Len(pending)
            /\ TrailingTools(history) = tcIndex - 1)
    /\ [](\A k \in 1..Len(stack) :
            /\ stack[k].tcIndex \in 1..Len(stack[k].pending)
            /\ TrailingTools(stack[k].history) = stack[k].tcIndex - 1
            /\ stack[k].obs.llmCalls = Len(stack[k].obs.responses))
    /\ [][ /\ (SameAgent /\ obs'.llmCalls # obs.llmCalls) =>
                 /\ obs'.llmCalls = obs.llmCalls + 1
                 /\ pc \in {"iterate", "compacting"}
                 /\ pc' = "llm"
                 /\ NoCallOutstanding(pending, tcIndex)
           /\ (SameAgent /\ obs'.compactCalls # obs.compactCalls) =>
                 /\ obs'.compactCalls = obs.compactCalls + 1
                 /\ obs'.llmCalls = obs.llmCalls
                 /\ pc = "iterate"
                 /\ pc' = "compacting"
                 /\ NoCallOutstanding(pending, tcIndex)
           /\ pc = "compacting" => pc' \in {"compacting", "llm", "failed"}
           /\ (SameAgent /\ pc = "tools" /\ tcIndex' # tcIndex) =>
                 /\ tcIndex' = tcIndex + 1
                 /\ history' = Append(history, history'[Len(history')])
                 /\ history'[Len(history')].tool_call_id = pending[tcIndex].id
           /\ (Len(stack') > Len(stack)) =>
                 /\ pc = "tools"
                 /\ stack'[Len(stack')].tcIndex = tcIndex
                 /\ stack'[Len(stack')].history = history ]_vars

\* the compaction call of the second iteration is awaited after both tool
\* calls of the first response, one of them a spawn, have returned
C26_Witness ==
    /\ stack = <<>>
    /\ pc = "compacting"
    /\ Len(obs.executed) = 2
    /\ \E i \in 1..2 : obs.executed[i].name = SessionsTool
    /\ obs.llmCalls = 1

\* the tool calls of the responses, in the order the LLM returned them
RECURSIVE CallsOf(_)
CallsOf(responses) ==
    IF responses = <<>> THEN <<>>
    ELSE Head(responses).toolCalls \o CallsOf(Tail(responses))

\* the calls of the last response the for-loop has not reached yet
Remaining == IF pc = "tools" THEN Len(pending) - tcIndex + 1 ELSE 0

\* what execute has been called with is what the LLM returned, in order
ExecutedInOrder ==
    /\ Len(obs.executed) + Remaining = Len(CallsOf(obs.responses))
    /\ obs.executed = SubSeq(CallsOf(obs.responses), 1, Len(obs.executed))
    /\ (lastExec.name # "" /\ obs.executed # <<>>) =>
          /\ lastExec.name = obs.executed[Len(obs.executed)].name
          /\ lastExec.args = obs.executed[Len(obs.executed)].arguments

\* C29 as stated: every tool call of every response of the run is executed
\* exactly once, in order, with its own name and arguments, and no response's
\* calls are left out.
C29_EveryCallExecutedOnce ==
    /\ ExecutedInOrder
    /\ ~(obs.final.seen /\ obs.final.hadCalls)

\* C29, amended: every tool call of a response received before the last
\* iteration is executed exactly once, in order, with its own name and
\* arguments, and execute is called for nothing else; the tool calls of the
\* response to the forced final call (iterations = maxIterations) are
\* discarded without being executed.
C29_AcceptedCallsExecutedOnce ==
    /\ ExecutedInOrder
    /\ (obs.final.seen /\ obs.final.hadCalls) => iterations = maxIter
    /\ \A k \in 1..Len(obs.responses) : obs.chatIterations[k] < maxIter

\* a run has ended in which the calls of two responses were executed and the
\* calls of the answer to the forced final call were dropped
C29_Witness ==
    /\ pc = "done"
    /\ Len(obs.responses) = 2
    /\ Len(obs.executed) >= 3
    /\ obs.final.hadCalls

\* C30: the registration set is fixed during runs: in every state of a run,
\* with or without children, the registry is the one the outermost Agent's
\* constructor left, no step changes it, names stay unique, and
\* update_memory is registered exactly when that Agent was given a memory.
C30_RegistryFixed ==
    /\ [](registry = constructAgent(SessionRegistry, memory.configured))
    /\ [](has(registry, UpdateMemoryTool) <=> memory.configured)
    /\ [](UniqueNames(registry))
    /\ [][registry' = registry]_vars

\* a run of an Agent given a memory has ended after a child returned
C30_Witness ==
    /\ stack = <<>>
    /\ pc = "done"
    /\ memory.configured
    /\ Len(registry) = 3
    /\ \E i \in 1..Len(obs.executed) : obs.executed[i].name = SessionsTool

-----------------------------------------------------------------------------
(* An Agent whose options carry maxContextTokens, as the demo's do *)

\* the options of demo.ts: config, compactor and maxContextTokens, which the
\* Agent constructor does not hand to its ContextBuilder
BudgetConfigs ==
    [name : {"OpenClaw-MVP"}, model : {"mock"},
     baseInstructions : { <<"You are an expert AI developer assistant.">> },
     maxIterations : {MaxBudgetIter},
     toolAllowlist : { <<>> },
     hasCompactor : BOOLEAN,
     keepRecentCount : {1},
     maxContextTokens : {2000, DEFAULT_MAX_CONTEXT_TOKENS}]

InitBudget ==
    /\ registry = InitialRegistry
    /\ lastExec = NoExec
    /\ config \in BudgetConfigs
    /\ history = <<>>
    /\ pc = "idle"
    /\ iterations = 0
    /\ totalTokens = 0
    /\ ctx = NoCtx
    /\ pending = <<>>
    /\ tcIndex = 0
    /\ result = NoResult
    /\ obs = NewObs(0, <<>>)
    /\ lastCall = NoCall
    /\ heap = NoHeap
    /\ stack = <<>>
    /\ memory = NoMemory
    /\ extraSections = <<>>

NextBudget ==
    \/ \E m \in UserMessages : pc = "idle" /\ Run(m)
    \/ BeginIteration
    \/ BeginCompaction
    \/ \E c \in SummaryChoices : CompactorReturns(c)
    \/ CompactorRaises
    \/ \E r \in LLMResponses : LLMReturnsCalls(r)
    \/ \E r \in LLMResponses : LLMReturnsFinal(r)
    \/ LLMRaises
    \/ \E b \in Behaviours : ToolStep(b)

SpecBudget == InitBudget /\ [][NextBudget]_vars

\* the budget the options ask for
ConfiguredBudget ==
    budgetAt(config.maxContextTokens, systemPromptOf(config, registry))

\* C31: an Agent configured with maxContextTokens = M builds each turn's
\* context against M minus the estimated system-prompt tokens: a compaction
\* call is made exactly when the history's estimate exceeds 80% of that
\* budget (and the history is long enough), and the messages of each LLM
\* call that follows no compaction are the history pruned to that budget.
C31_BudgetFollowsOption ==
    /\ pc = "compacting" =>
          shouldCompact(history, ConfiguredBudget)
    /\ (pc = "llm" /\ ~obs.compacted) =>
          /\ config.hasCompactor =>
                \/ ~shouldCompact(obs.appended, ConfiguredBudget)
                \/ compactRefuses(obs.appended, config.keepRecentCount)
          /\ ctx.messages =
                llmMessages(
                    buildFrom(config, registry, systemPromptOf(config, registry),
                              history, ConfiguredBudget, FALSE),
                    iterations)

-----------------------------------------------------------------------------
(* Tail-pruning against the budget *)

\* the messages of a built list that come from the history
Originals(built) == SelectSeq(built, LAMBDA m : ~IsPruneNotice(m))

\* the last n messages of a history
LastN(h, n) == SubSeq(h, Len(h) - n + 1, Len(h))

\* the length of the longest suffix of h whose estimates sum to at most
\* budget, the last message counting even when it alone exceeds the budget
LongestFitting(h, budget) ==
    IF h = <<>> THEN 0
    ELSE LET fits == { n \in 1..Len(h) : TokenSum(LastN(h, n)) <= budget }
         IN  IF fits = {} THEN 1
             ELSE CHOOSE n \in fits : \A k \in fits : k <= n

\* C32: without a compactor, the messages build returns, the pruning notice
\* aside, are the longest suffix of the history whose estimates sum to at
\* most maxContextTokens minus the system prompt's estimate (the last message
\* alone when even it is too large); a history within the budget comes back
\* unchanged and without notice, and more than one returned original message
\* never sum to more than the budget.
C32_LongestSuffixWithinBudget ==
    (lastCall.op = "build" /\ ~config.hasCompactor) =>
        LET h == lastCall.messages
            r == lastCall.out.context.messages
            budget == lastCall.out.budget
            kept == Originals(r)
        IN  /\ budget = lastCall.maxContextTokens
                          - estimateTokens(systemPromptOf(config, registry))
            /\ kept = LastN(h, LongestFitting(h, budget))
            /\ TokenSum(h) <= budget => r = h
            /\ Len(kept) > 1 => TokenSum(kept) <= budget

-----------------------------------------------------------------------------
(* The last permitted iteration *)

MaxCeilingIter == 3

\* a response that carries both a tool call and a text with fake tool-call
\* markup
MarkedCallResponse ==
    [content |-> <<" ", "The answer.", DSMLOpen, "function_calls>">>,
     toolCalls |-> <<[id |-> "c1", name |-> "alpha",
                      arguments |-> "{\"input\":\"hello\"}"]>>,
     reasoningContent |-> Null]

CeilingResponses == LLMResponses \cup {MarkedCallResponse}

CeilingConfigs ==
    [name : {"test-agent"}, model : {"mock"},
     baseInstructions : { <<"You are a helpful test agent.">> },
     maxIterations : 0..MaxCeilingIter,
     toolAllowlist : { <<>> },
     hasCompactor : {FALSE},
     keepRecentCount : {1}]

InitCeiling ==
    /\ registry = InitialRegistry
    /\ lastExec = NoExec
    /\ config \in CeilingConfigs
    /\ history = <<>>
    /\ pc = "idle"
    /\ iterations = 0
    /\ totalTokens = 0
    /\ ctx = NoCtx
    /\ pending = <<>>
    /\ tcIndex = 0
    /\ result = NoResult
    /\ obs = NewObs(0, <<>>)
    /\ lastCall = NoCall
    /\ heap = NoHeap
    /\ stack = <<>>
    /\ memory = NoMemory
    /\ extraSections = <<>>

NextCeiling ==
    \/ \E m \in UserMessages : Run(m)
    \/ BeginIteration
    \/ \E r \in CeilingResponses : LLMReturnsCalls(r)
    \/ \E r \in CeilingResponses : LLMReturnsFinal(r)
    \/ LLMRaises
    \/ \E b \in Behaviours : ToolStep(b)
    \/ Fallback
    \/ Reset

SpecCeiling == InitCeiling /\ [][NextCeiling]_vars

\* the step that ends the LLM call of the iteration with no iteration left
ForcedAnswerStep ==
    pc = "llm" /\ maxIter - iterations = 0 /\ pc' # "llm"

\* what the forced-answer iteration leaves when its response's text is text
ForcedAnswerAppends(text) ==
    /\ pc' = "done"
    /\ history' = Append(history, AssistantFinal(text, Null))
    /\ result'.returned
    /\ result'.response = text
    /\ obs'.executed = obs.executed
    /\ lastExec' = lastExec

ContextMessages == buildResult(config, registry, history, FALSE).messages

\* the LLM input of the current iteration, with the given trailing messages
LLMInputIs(trailing) ==
    \E cm \in {ContextMessages} :
        ctx.messages = <<SystemMessage(systemPromptOf(config, registry))>>
                          \o cm \o trailing

\* C34 as stated: with at most one iteration remaining the LLM input has the
\* nudge appended after the context messages, with none remaining it has the
\* hard-stop instruction appended as well, and with two or more remaining it
\* is the system prompt followed by the context messages.
C34_NudgeUpToLastIteration ==
    pc = "llm" =>
        /\ maxIter - iterations >= 2 => LLMInputIs(<<>>)
        /\ maxIter - iterations = 1 => LLMInputIs(<<SystemMessage(NudgeText)>>)
        /\ maxIter - iterations = 0 =>
              LLMInputIs(<<SystemMessage(NudgeText), SystemMessage(FinalStepText)>>)

\* C34 amended: with exactly one iteration remaining the LLM input is the
\* system prompt, the context messages and the nudge; with none remaining it
\* is the system prompt, the context messages and the hard-stop instruction,
\* without the nudge; with two or more remaining it is the system prompt
\* followed by the context messages.
C34_NudgeThenHardStop ==
    pc = "llm" =>
        /\ maxIter - iterations >= 2 => LLMInputIs(<<>>)
        /\ maxIter - iterations = 1 => LLMInputIs(<<SystemMessage(NudgeText)>>)
        /\ maxIter - iterations = 0 => LLMInputIs(<<SystemMessage(FinalStepText)>>)

\* the third of three iterations awaits the LLM after two rounds of tool calls
C34_Witness ==
    /\ pc = "llm"
    /\ maxIter = 3
    /\ iterations = 3
    /\ Len(obs.executed) >= 2
    /\ ctx.messages[Len(ctx.messages)] = SystemMessage(FinalStepText)

\* the run has returned at the iteration ceiling and the last response, if
\* there was one, had no text left after stripFakeToolCalls
CeilingWithoutText ==
    /\ pc = "done"
    /\ result.returned
    /\ result.iterations = maxIter
    /\ obs.final.seen => stripFakeToolCalls(OrEmpty(obs.final.content)) = <<>>

\* C35: a run that reaches the iteration ceiling without a non-empty text
\* from the LLM returns the content of the most recent assistant message with
\* non-empty content that the history held, the generic message about the
\* maximum number of reasoning steps if there is none, and appends that
\* response to the history as its last assistant message.
C35_CeilingFallsBack ==
    CeilingWithoutText =>
        LET before == SubSeq(history, 1, Len(history) - 1)
            last == lastAssistantContent(before)
            fallback == IF last = Null THEN FallbackText ELSE last
        IN  /\ result.response = fallback
            /\ history[Len(history)] = AssistantFinal(fallback, Null)

-----------------------------------------------------------------------------
(* What a context build stores *)

\* the messages that exist only in the LLM input
IsTransient(m) ==
    \/ IsPruneNotice(m)
    \/ m = SystemMessage(NudgeText)
    \/ m = SystemMessage(FinalStepText)
    \/ m = SystemMessage(systemPromptOf(config, registry))

\* C36: during context building only a successful compaction changes the
\* stored history, which then is the compacted history, not its tail-pruned
\* form, and stays so when the main LLM call of that iteration raises;
\* tail-pruning alone leaves the stored history as it was, and the system
\* prompt, pruning notice, nudge and hard-stop instruction are never stored.
C36_OnlyCompactionStores ==
    /\ [][BuildStep =>
            \/ history' = history
            \/ /\ pc = "compacting" /\ pc' = "llm"
               /\ obs'.compacted
               /\ \E c \in SummaryChoices :
                     history' = compact(history, config.keepRecentCount,
                                        summaryOf(c))]_vars
    /\ [][(pc = "iterate" /\ pc' = "llm") => history' = history]_vars
    /\ [][(pc = "llm" /\ pc' = "failed") => history' = history]_vars
    /\ [](\A i \in 1..Len(history) : ~IsTransient(history[i]))

\* the main LLM call raised in an iteration whose build had compacted: the
\* stored history is the summary followed by the recent messages
C36_Witness ==
    /\ pc = "failed"
    /\ obs.failedAt = "llm"
    /\ obs.compacted
    /\ Len(history) = 1 + config.keepRecentCount
    /\ history[1].role = "system"
    /\ history[1].content[1] = SummaryTag

-----------------------------------------------------------------------------
(* Repeated compaction *)

\* a user message that quotes the marker of the summary messages
QuotingMessage == <<"What does ", SummaryTag, " mean?">>

QuotingMessages == {<<"Hi">>, QuotingMessage}

CompactionConfigs ==
    [name : {"test-agent"}, model : {"mock"},
     baseInstructions : { <<"You are a helpful test agent.">> },
     maxIterations : {MaxIterBound},
     toolAllowlist : { <<>> },
     hasCompactor : {TRUE},
     keepRecentCount : {1}]

InitCompaction ==
    /\ registry = InitialRegistry
    /\ lastExec = NoExec
    /\ config \in CompactionConfigs
    /\ history = <<>>
    /\ pc = "idle"
    /\ iterations = 0
    /\ totalTokens = 0
    /\ ctx = NoCtx
    /\ pending = <<>>
    /\ tcIndex = 0
    /\ result = NoResult
    /\ obs = NewObs(0, <<>>)
    /\ lastCall = NoCall
    /\ heap = NoHeap
    /\ stack = <<>>
    /\ memory = NoMemory
    /\ extraSections = <<>>

NextCompaction ==
    \/ \E m \in QuotingMessages : Run(m)
    \/ BeginIteration
    \/ BeginCompaction
    \/ \E c \in SummaryChoices : CompactorReturns(c)
    \/ CompactorRaises
    \/ \E r \in LLMResponses : LLMReturnsCalls(r)
    \/ \E r \in LLMResponses : LLMReturnsFinal(r)
    \/ LLMRaises
    \/ \E b \in Behaviours : ToolStep(b)
    \/ Reset

SpecCompaction == InitCompaction /\ [][NextCompaction]_vars

\* a message made by compact to stand for the summarized prefix
IsSummaryMessage(m) ==
    /\ m.role = "system"
    /\ m.content # Null
    /\ Len(m.content) > 0
    /\ m.content[1] = SummaryTag

\* the positions of the summary messages in a list
SummaryPositions(messages) ==
    { i \in 1..Len(messages) : IsSummaryMessage(messages[i]) }

\* the history holds at most one summary message, and only in first place
OneSummaryFirst == SummaryPositions(history) \subseteq {1}

\* C37: the messages handed to the summarizer hold no earlier summary message
\* and are the prefix to compact without its summary messages, nothing else
\* being left out; the history holds at most one summary message, which is
\* then its first message.
C37_OnlySummariesLeftOut ==
    /\ OneSummaryFirst
    /\ pc = "compacting" =>
          \E prefix \in {toCompact(history, config.keepRecentCount)},
             input \in {filteredToCompact(history, config.keepRecentCount)} :
              /\ SummaryPositions(input) = {}
              /\ input = SelectSeq(prefix, LAMBDA m : ~IsSummaryMessage(m))

-----------------------------------------------------------------------------
(* The allowlist and the execution of tool calls *)

\* the handler of the last executed call was invoked
HandlerInvoked == lastExec.name # "" /\ lastExec.out.invoked > 0

\* the names of a non-empty allowlist
Allowed == { config.toolAllowlist[k] : k \in 1..Len(config.toolAllowlist) }

-----------------------------------------------------------------------------
(* Overlapping calls of run and reset on one Agent.

   run is an async method without a guard: a second call may start while the
   first awaits build, llm.chat or registry.execute.  In this specification
   the locals of run (its position pc, iterations, the tool calls of the
   response in hand and the index of the for-loop) are kept per activation,
   pc[a], iterations[a], pending[a], tcIndex[a], while the history is the one
   array of the Agent; obs.owners names, for each message of the history, the
   activation that pushed it. *)

MaxRuns == 2

Activations == 1..MaxRuns

OverlapConfigs ==
    [name : {"test-agent"}, model : {"mock"},
     baseInstructions : { <<"You are a helpful test agent.">> },
     maxIterations : {2},
     toolAllowlist : { <<>> },
     hasCompactor : {FALSE},
     keepRecentCount : {1}]

OverlapResponses ==
    { [content |-> <<"thinking...">>, toolCalls |-> <<>>, reasoningContent |-> Null],
      [content |-> Null,
       toolCalls |-> <<[id |-> "c1", name |-> "alpha",
                        arguments |-> "{\"input\":\"hello\"}"]>>,
       reasoningContent |-> Null] }

OverlapFrame ==
    UNCHANGED <<registry, lastExec, config, totalTokens, ctx, result, lastCall,
                heap, stack, memory, extraSections>>

\* this.conversationHistory.push(m), by activation a
PushedBy(a, m) ==
    /\ history' = Append(history, m)
    /\ obs' = [obs EXCEPT !.owners = Append(@, a)]

\* run(userMessage) is called: the user message is pushed, the first
\* iteration starts and run awaits build
RunOverlapping(a, userMessage) ==
    /\ pc[a] = "idle"
    /\ PushedBy(a, UserMessage(userMessage))
    /\ iterations' = [iterations EXCEPT ![a] = 1]
    /\ pc' = [pc EXCEPT ![a] = "building"]
    /\ UNCHANGED <<pending, tcIndex>>
    /\ OverlapFrame

\* build returns to activation a, which calls llm.chat and awaits it
BuildReturns(a) ==
    /\ pc[a] = "building"
    /\ pc' = [pc EXCEPT ![a] = "llm"]
    /\ UNCHANGED <<history, obs, iterations, pending, tcIndex>>
    /\ OverlapFrame

\* llm.chat returns tool calls to activation a: the assistant message is
\* pushed and the first call's execute is awaited
ChatReturnsCalls(a, response) ==
    /\ pc[a] = "llm"
    /\ takesToolBranch(response, iterations[a])
    /\ PushedBy(a, AssistantCalls(response))
    /\ pending' = [pending EXCEPT ![a] = response.toolCalls]
    /\ tcIndex' = [tcIndex EXCEPT ![a] = 1]
    /\ pc' = [pc EXCEPT ![a] = "tools"]
    /\ UNCHANGED iterations
    /\ OverlapFrame

\* llm.chat returns the final answer to activation a, which pushes it and
\* returns
ChatReturnsFinal(a, response) ==
    /\ pc[a] = "llm"
    /\ ~takesToolBranch(response, iterations[a])
    /\ PushedBy(a, AssistantFinal(finalContentOf(response),
                                  response.reasoningContent))
    /\ pc' = [pc EXCEPT ![a] = "done"]
    /\ UNCHANGED <<iterations, pending, tcIndex>>
    /\ OverlapFrame

\* execute returns to activation a: the tool message is pushed; after the
\* last call the next iteration starts and run awaits build
ExecuteReturns(a) ==
    /\ pc[a] = "tools"
    /\ LET tc == pending[a][tcIndex[a]]
           out == execute(registry, tc.name, tc.arguments,
                          [kind |-> "return", text |-> <<"5">>])
       IN  PushedBy(a, ToolMessage(tc, out.text))
    /\ IF tcIndex[a] < Len(pending[a])
       THEN /\ tcIndex' = [tcIndex EXCEPT ![a] = @ + 1]
            /\ UNCHANGED <<pc, iterations>>
       ELSE /\ iterations' = [iterations EXCEPT ![a] = @ + 1]
            /\ pc' = [pc EXCEPT ![a] = "building"]
            /\ UNCHANGED tcIndex
    /\ UNCHANGED pending
    /\ OverlapFrame

\* reset() is called while an activation of run is suspended
ResetOverlapping ==
    /\ \E a \in Activations : pc[a] \in {"building", "llm", "tools"}
    /\ history # <<>>
    /\ history' = <<>>
    /\ obs' = [obs EXCEPT !.owners = <<>>]
    /\ UNCHANGED <<pc, iterations, pending, tcIndex>>
    /\ OverlapFrame

InitOverlap ==
    /\ registry = InitialRegistry
    /\ lastExec = NoExec
    /\ config \in OverlapConfigs
    /\ history = <<>>
    /\ pc = [a \in Activations |-> "idle"]
    /\ iterations = [a \in Activations |-> 0]
    /\ totalTokens = 0
    /\ ctx = NoCtx
    /\ pending = [a \in Activations |-> <<>>]
    /\ tcIndex = [a \in Activations |-> 0]
    /\ result = NoResult
    /\ obs = [owners |-> <<>>]
    /\ lastCall = NoCall
    /\ heap = NoHeap
    /\ stack = <<>>
    /\ memory = NoMemory
    /\ extraSections = <<>>

NextOverlap ==
    \/ \E a \in Activations, m \in UserMessages : RunOverlapping(a, m)
    \/ \E a \in Activations : BuildReturns(a)
    \/ \E a \in Activations, r \in OverlapResponses : ChatReturnsCalls(a, r)
    \/ \E a \in Activations, r \in OverlapResponses : ChatReturnsFinal(a, r)
    \/ \E a \in Activations : ExecuteReturns(a)
    \/ ResetOverlapping

SpecOverlap == InitOverlap /\ [][NextOverlap]_vars

\* the messages pushed by activation a lie next to one another
Contiguous(a) ==
    \A i, j, k \in 1..Len(history) :
        (i < j /\ j < k /\ obs.owners[i] = a /\ obs.owners[k] = a)
            => obs.owners[j] = a

\* the tool message at position i follows, with only tool messages between,
\* an assistant message that carries its call
Paired(i) ==
    \E j \in 1..(i - 1) :
        /\ history[j].role = "assistant"
        /\ \E n \in 1..Len(history[j].tool_calls) :
              history[j].tool_calls[n].id = history[i].tool_call_id
        /\ \A m \in (j + 1)..(i - 1) : history[m].role = "tool"

\* C39: whatever calls of run and reset overlap on one Agent, the messages
\* each run has appended form one contiguous segment of the history and every
\* tool message stays paired with the assistant message that carries its call.
C39_OneRunAtATime ==
    /\ \A a \in Activations : Contiguous(a)
    /\ \A i \in 1..Len(history) : history[i].role = "tool" => Paired(i)

-----------------------------------------------------------------------------
(* What run returns *)

\* the context messages within the LLM input of the current iteration: the
\* input without the system prompt in front and the nudge or hard-stop
\* instruction behind
ContextPart ==
    SubSeq(ctx.messages, 2,
           Len(ctx.messages) - (IF maxIter - iterations <= 1 THEN 1 ELSE 0))

\* tokenEstimate of the build behind the current LLM call: the estimate of the
\* system prompt plus those of the messages build returned
BuildEstimate ==
    estimateTokens(systemPromptOf(config, registry)) + SumTokens(ContextPart)

\* a step in which a build of run completes and llm.chat is called
BuildCompletes == pc \in {"iterate", "compacting"} /\ pc' = "llm"

\* a step in which run returns
ReturnStep == running /\ pc' = "done"

\* C40: whenever run returns, the last message of the history is an assistant
\* message without tool_calls whose content is the returned response, the
\* returned messages are the history of that moment, and the returned
\* totalTokens is the sum of the tokenEstimate of the run's context builds,
\* of which there is one per reported iteration.
C40_ReturnMatchesHistory ==
    /\ [][ReturnStep =>
            /\ result'.returned
            /\ history'[Len(history')] = AssistantFinal(result'.response, Null)
            /\ result'.messages = history'
            /\ result'.totalTokens = totalTokens'
            /\ result'.iterations = iterations'
            /\ obs'.llmCalls = iterations']_vars
    /\ [][running =>
            totalTokens' = totalTokens
                             + (IF BuildCompletes THEN BuildEstimate' ELSE 0)]_vars
    /\ []((pc = "iterate" /\ iterations = 0) => totalTokens = 0)

\* a run of three iterations, one of them with a compacting build, returned
C40_Witness ==
    /\ pc = "done"
    /\ result.returned
    /\ result.iterations = 3
    /\ obs.compacted
    /\ result.totalTokens > 0
    /\ result.messages = history

====
